---- MODULE Spec2Model ----
(***************************************************************************)
(* Xybitz: the ingestion-and-summarisation pipeline.                       *)
(*                                                                         *)
(* The model follows app/services/summariser.py (the batch, its tasks and  *)
(* the session they share), app/services/scheduler.py (the jobs),          *)
(* app/routers/admin_actions.py (the manual triggers and resets) and       *)
(* app/main.py (startup).  Every await of the code is a point where the    *)
(* event loop may run another coroutine, so an action is the code between  *)
(* two awaits; a database statement takes effect in one step.              *)
(***************************************************************************)
EXTENDS Integers, Sequences, FiniteSets, TLC

\* Bounds of the model.
NumArticles == 2
NumCallers == 2
MaxConcurrency == 2
MaxTriggers == 2
MaxOps == 1
BatchArticles == 3
JobTriggers == 1
MaxCrashes == 1
LiveArticles == 2

Ids == 1..(IF NumArticles > BatchArticles THEN NumArticles ELSE BatchArticles)
Callers == 1..NumCallers

VARIABLES
    db,            \* the articles table: id -> row
    nextId,        \* highest id handed out by the autoincrement key
    aged,          \* articles 1..aged have fetched_at before now - STUCK_THRESHOLD
    feed,          \* entries of the feeds that are not ingested yet
    triggers,      \* runs left of the jobs and endpoints that call the batch
    ops,           \* runs left of the watchdog and the manual article actions
    limit,         \* settings.SUMMARISATION_CONCURRENCY
    provider,      \* settings.LLM_PROVIDER
    phase,         \* "starting" until the lifespan has started the scheduler
    crashes,       \* times the process may still die and be started again
    expired,       \* articles 1..expired have fetched_at before the retention cutoff
    purge,         \* the purge job between its select and its deletes
    category,      \* per article: Article.category, set at ingestion
    ingested,      \* per caller: the articles its cycle's ingestion persisted,
                   \* kept until the cycle's batch has claimed or returned
    call,          \* a call of a pure function: its arguments and what it returned
    sources,       \* the sources table: id -> row
    stored,        \* the committed articles as ingestion sees them: url, url_hash
    cycle,         \* per ingestion cycle: where ingest_all_feeds stands
    activity,      \* the events log_activity recorded (SpecLog: the deque itself)
    event,         \* the job that made the last step, with the table it found
    young,         \* per caller: the claim is younger than STUCK_THRESHOLD
    locked,        \* _running_lock
    pc,            \* per caller: where its coroutine stands
    articles,      \* per caller: the list selected by the claim phase
    loaded,        \* per caller: the ORM objects' values as loaded by the select
    marked,        \* per caller: the rows the claim commit set to processing
    task,          \* per caller and article: where guarded_process stands
    attempts,      \* per caller and article: inference calls issued so far
    resp,          \* per caller and article: what summarise_with_retry gave
    persisted,     \* per caller and article: the status a commit of the batch wrote
    sem,           \* per caller: permits left of the batch semaphore
    inner,         \* per caller: permits left of OllamaSummariser._semaphore
    dirty,         \* per caller: session objects with unflushed changes
    busy,          \* per caller: the commit in flight on the session
    sessionOpen,   \* per caller: the AsyncSession is not closed yet
    commitErrors,  \* per caller: commits of the batch that raised
    done_count,
    failed_count,
    result         \* per caller: what process_pending_articles last returned

ingVars == <<call, sources, stored, cycle, activity>>
sysVars == <<phase, crashes, expired, purge, category, ingested, ingVars>>
vars == <<db, nextId, aged, feed, triggers, ops, limit, provider, sysVars, event, locked, pc, articles, loaded,
          marked, task, attempts, resp, persisted, sem, inner, dirty, busy,
          sessionOpen, commitErrors, done_count, failed_count, result>>

claimVars == <<articles, loaded, marked, young>>
taskVars == <<task, attempts, resp, persisted>>
semVars == <<sem, inner>>
sessVars == <<dirty, busy, sessionOpen, commitErrors>>
countVars == <<done_count, failed_count>>
batchVars == <<claimVars, taskVars, semVars, sessVars, countVars>>

----------------------------------------------------------------------------
(* Text.  A string is a sequence of pieces: "M" is the text MARKETING_ONLY, *)
(* "m" the same text in lower case, "_" white space, "w" any other lower   *)
(* case text and "W" that text in upper case.                              *)

None == <<"None">>

RECURSIVE lstrip(_)
lstrip(s) == IF s # <<>> /\ Head(s) = "_" THEN lstrip(Tail(s)) ELSE s

RECURSIVE rstrip(_)
rstrip(s) ==
    IF s # <<>> /\ s[Len(s)] = "_" THEN rstrip(SubSeq(s, 1, Len(s) - 1)) ELSE s

strip(s) == rstrip(lstrip(s))

upper(s) ==
    [i \in DOMAIN s |->
        IF s[i] = "m" THEN "M"
        ELSE IF s[i] = "w" THEN "W"
        ELSE IF s[i] = "s" THEN "S" ELSE s[i]]

lower(s) ==
    [i \in DOMAIN s |->
        IF s[i] = "M" THEN "m"
        ELSE IF s[i] = "W" THEN "w"
        ELSE IF s[i] = "S" THEN "s" ELSE s[i]]

\* The number of characters of a piece: "s" and "S" are a text shorter than
\* the shortest summary the ollama path accepts, "w" and "W" one of that
\* length, "M" and "m" the 14 characters of MARKETING_ONLY.
PieceLen(c) ==
    IF c \in {"_", "s", "S"} THEN 1 ELSE IF c \in {"M", "m"} THEN 14 ELSE 10

RECURSIVE len(_)
len(s) == IF s = <<>> THEN 0 ELSE PieceLen(Head(s)) + len(Tail(s))

startswith(s, prefix) ==
    Len(s) >= Len(prefix) /\ SubSeq(s, 1, Len(prefix)) = prefix

MARKETING_ONLY_TOKEN == <<"M">>

\* What the inference backend may answer with.
Replies == {<<"w">>, <<"M">>, <<"_", "m", "w">>}

\* The texts a backend may send, the empty and the short ones included
Responses == Replies \cup {<<>>, <<"_">>, <<"s">>}

\* The request failed: a timeout, a connection error, a 4xx/5xx status or a
\* body without the expected fields
HttpError == <<"HttpError">>

Fail == <<"SummarisationError">>
NoResp == <<"NoResp">>

Providers == {"ollama", "openai", "groq", "unknown"}

\* summariser.py:77
MinSummaryLen == 10

\* summariser.py:56-115: what one call of summarise gives for the response
\* of the backend; an unknown provider raises before any request is made
summarise(prov, response) ==
    IF prov = "ollama"
    THEN IF response = HttpError THEN Fail
         ELSE LET response_text == strip(response) IN
              IF response_text = <<>> \/ len(response_text) < MinSummaryLen
              THEN Fail ELSE response_text
    ELSE IF prov \in {"openai", "groq"}
    THEN IF response = HttpError THEN Fail ELSE strip(response)
    ELSE Fail

\* summariser.py:186
IsMarketing(summary) ==
    startswith(upper(strip(summary)), MARKETING_ONLY_TOKEN)

----------------------------------------------------------------------------
(* The articles table                                                      *)

NoRow == [exists |-> FALSE, status |-> "none", summary |-> None,
          isActive |-> FALSE]

NewRow == [exists |-> TRUE, status |-> "pending", summary |-> None,
           isActive |-> TRUE]

Range(s) == {s[i] : i \in DOMAIN s}

Min(S) == CHOOSE x \in S : \A y \in S : x <= y

\* ORDER BY fetched_at ASC: ids are handed out in fetch order.
RECURSIVE order_by_fetched_at(_)
order_by_fetched_at(S) ==
    IF S = {} THEN <<>> ELSE <<Min(S)>> \o order_by_fetched_at(S \ {Min(S)})

WithStatus(d, st) == {a \in Ids : d[a].exists /\ d[a].status = st}

\* the UPDATE without its WHERE clause
SetStatusEverywhere(d, ids, to) ==
    [a \in Ids |-> IF d[a].exists THEN [d[a] EXCEPT !.status = to] ELSE d[a]]
\* UPDATE articles SET summary_status = :to WHERE id IN :ids
SetStatus(d, ids, to) ==
    [a \in Ids |->
        IF a \in ids /\ d[a].exists THEN [d[a] EXCEPT !.status = to] ELSE d[a]]

\* UPDATE ... SET summary_status='pending', summary=NULL, is_active=TRUE
ResetRows(d, ids) ==
    [a \in Ids |->
        IF a \in ids /\ d[a].exists
        THEN [d[a] EXCEPT !.status = "pending", !.summary = None,
                          !.isActive = TRUE]
        ELSE d[a]]

\* a retry that resets every unfinished article
retry_resetUnfinished(d) ==
    SetStatus(d, WithStatus(d, "failed") \cup WithStatus(d, "processing"),
              "pending")
\* scheduler.py:66-70 and admin_actions.py:404-408:
\* UPDATE articles SET summary_status='pending' WHERE summary_status='failed'
retry_reset(d) == SetStatus(d, WithStatus(d, "failed"), "pending")

----------------------------------------------------------------------------
(* Results of process_pending_articles                                     *)

NoResult == [kind |-> "none", processed |-> 0, done |-> 0, failed |-> 0,
             skipped |-> FALSE]

\* summariser.py:148
SkippedResult ==
    [kind |-> "returned", processed |-> 0, done |-> 0, failed |-> 0,
     skipped |-> TRUE]

\* summariser.py:161
EmptyResult ==
    [kind |-> "returned", processed |-> 0, done |-> 0, failed |-> 0,
     skipped |-> FALSE]

\* summariser.py:223
BatchResult(total, d, f) ==
    [kind |-> "returned", processed |-> total, done |-> d, failed |-> f,
     skipped |-> FALSE]

\* An exception left process_pending_articles.
Raised == [kind |-> "raised", processed |-> 0, done |-> 0, failed |-> 0,
           skipped |-> FALSE]

NoTxn == [by |-> 0, rows |-> {}]

\* No job made the last step
NoEvent == [job |-> "none", by |-> 0, before |-> <<>>]

\* No purge is between its select and its deletes
NoPurge == [active |-> FALSE, cutoff |-> 0, safe_categories |-> {},
            seen |-> <<>>]

NoLoad == [summary |-> None, isActive |-> FALSE]

\* No pure function is being called
NoCall == [fn |-> "none", args |-> <<>>, ret |-> <<>>]

\* No ingestion cycle runs and nothing is ingested yet
IngestIdle ==
    /\ call = NoCall
    /\ sources = <<>>
    /\ stored = <<>>
    /\ cycle = <<>>
    /\ activity = {}

\* The pipeline at rest: an empty table, no job due, no batch running
PipelineIdle ==
    /\ db = [a \in Ids |-> NoRow]
    /\ nextId = 0
    /\ aged = 0
    /\ feed = 0
    /\ triggers = 0
    /\ ops = 0
    /\ limit = MaxConcurrency
    /\ provider = "ollama"
    /\ phase = "running"
    /\ crashes = 0
    /\ expired = 0
    /\ purge = NoPurge
    /\ category = [a \in Ids |-> "general"]
    /\ ingested = [p \in Callers |-> {}]
    /\ event = NoEvent
    /\ young = [p \in Callers |-> FALSE]
    /\ locked = FALSE
    /\ pc = [p \in Callers |-> "idle"]
    /\ articles = [p \in Callers |-> <<>>]
    /\ loaded = [p \in Callers |-> [a \in Ids |-> NoLoad]]
    /\ marked = [p \in Callers |-> {}]
    /\ task = [p \in Callers |-> [a \in Ids |-> "none"]]
    /\ attempts = [p \in Callers |-> [a \in Ids |-> 0]]
    /\ resp = [p \in Callers |-> [a \in Ids |-> NoResp]]
    /\ persisted = [p \in Callers |-> [a \in Ids |-> "none"]]
    /\ sem = [p \in Callers |-> 0]
    /\ inner = [p \in Callers |-> 0]
    /\ dirty = [p \in Callers |-> {}]
    /\ busy = [p \in Callers |-> NoTxn]
    /\ sessionOpen = [p \in Callers |-> FALSE]
    /\ commitErrors = [p \in Callers |-> 0]
    /\ done_count = [p \in Callers |-> 0]
    /\ failed_count = [p \in Callers |-> 0]
    /\ result = [p \in Callers |-> NoResult]

\* Everything but the call of a pure function stands still
pipeVars == <<db, nextId, aged, feed, triggers, ops, limit, provider, phase,
              crashes, expired, purge, category, ingested, event, young,
              locked, pc, articles, loaded, marked, task, attempts, resp,
              persisted, sem, inner, dirty, busy, sessionOpen, commitErrors,
              done_count, failed_count, result>>

----------------------------------------------------------------------------
Init ==
    /\ db = [a \in Ids |-> NoRow]
    /\ nextId = 0
    /\ aged = 0
    /\ feed = NumArticles
    /\ triggers = MaxTriggers
    /\ ops = MaxOps
    /\ limit \in 1..MaxConcurrency
    /\ provider = "ollama"
    /\ phase = "running"
    /\ crashes = 0
    /\ expired = 0
    /\ purge = NoPurge
    /\ IngestIdle
    /\ category = [a \in Ids |-> "general"]
    /\ ingested = [p \in Callers |-> {}]
    /\ event = NoEvent
    /\ young = [p \in Callers |-> FALSE]
    /\ locked = FALSE
    /\ pc = [p \in Callers |-> "idle"]
    /\ articles = [p \in Callers |-> <<>>]
    /\ loaded = [p \in Callers |-> [a \in Ids |-> NoLoad]]
    /\ marked = [p \in Callers |-> {}]
    /\ task = [p \in Callers |-> [a \in Ids |-> "none"]]
    /\ attempts = [p \in Callers |-> [a \in Ids |-> 0]]
    /\ resp = [p \in Callers |-> [a \in Ids |-> NoResp]]
    /\ persisted = [p \in Callers |-> [a \in Ids |-> "none"]]
    /\ sem = [p \in Callers |-> 0]
    /\ inner = [p \in Callers |-> 0]
    /\ dirty = [p \in Callers |-> {}]
    /\ busy = [p \in Callers |-> NoTxn]
    /\ sessionOpen = [p \in Callers |-> FALSE]
    /\ commitErrors = [p \in Callers |-> 0]
    /\ done_count = [p \in Callers |-> 0]
    /\ failed_count = [p \in Callers |-> 0]
    /\ result = [p \in Callers |-> NoResult]

----------------------------------------------------------------------------
(* asyncio primitives                                                      *)

\* asyncio.Lock.locked()
lock_lockedNever(l) == FALSE
lock_locked(l) == l

\* asyncio.Lock.acquire() on a free lock
lock_acquireForgets(l) == l
lock_acquire(l) == TRUE

\* a lock that stays held when its holder leaves the async with block
lock_releaseKeeps(l) == l
\* asyncio.Lock.release(), at the end of the async with block
lock_release(l) == FALSE

\* asyncio.Semaphore.acquire() with a permit left, and release()
Semaphore_acquireKeeps(value) == value
Semaphore_acquire(value) == value - 1

Semaphore_release(value) == value + 1

----------------------------------------------------------------------------
(* Triggers: each ends in a call of process_pending_articles               *)

Claimed(p) == Range(articles[p])

Fresh(p) ==
    /\ articles' = [articles EXCEPT ![p] = <<>>]
    /\ loaded' = [loaded EXCEPT ![p] = [a \in Ids |-> NoLoad]]
    /\ marked' = [marked EXCEPT ![p] = {}]
    /\ young' = [young EXCEPT ![p] = FALSE]
    /\ task' = [task EXCEPT ![p] = [a \in Ids |-> "none"]]
    /\ attempts' = [attempts EXCEPT ![p] = [a \in Ids |-> 0]]
    /\ resp' = [resp EXCEPT ![p] = [a \in Ids |-> NoResp]]
    /\ persisted' = [persisted EXCEPT ![p] = [a \in Ids |-> "none"]]
    /\ sem' = [sem EXCEPT ![p] = 0]
    /\ inner' = [inner EXCEPT ![p] = 0]
    /\ dirty' = [dirty EXCEPT ![p] = {}]
    /\ busy' = [busy EXCEPT ![p] = NoTxn]
    /\ sessionOpen' = [sessionOpen EXCEPT ![p] = FALSE]
    /\ commitErrors' = [commitErrors EXCEPT ![p] = 0]
    /\ done_count' = [done_count EXCEPT ![p] = 0]
    /\ failed_count' = [failed_count EXCEPT ![p] = 0]

\* The coroutines of the event loop are interchangeable: a new one takes the
\* lowest free slot.
Idle(p) ==
    /\ pc[p] = "idle"
    /\ \A q \in Callers : q < p => pc[q] # "idle"

\* scheduler.py:21-49: interval triggers fire for as long as the process
\* runs; a budget of Forever is never used up
Forever == -1

Trigger ==
    /\ phase = "running"
    /\ triggers # 0
    /\ triggers' = IF triggers = Forever THEN Forever ELSE triggers - 1
    /\ UNCHANGED ops

Op ==
    /\ phase = "running"
    /\ ops # 0
    /\ ops' = IF ops = Forever THEN Forever ELSE ops - 1
    /\ UNCHANGED triggers

\* scheduler.py:53-54 (the fetch job, the startup task, POST /trigger-fetch)
ingest_and_summarise(p) ==
    /\ Idle(p)
    /\ Trigger
    /\ pc' = [pc EXCEPT ![p] = "ingest"]
    /\ UNCHANGED <<db, nextId, aged, feed, limit, provider, sysVars, locked, batchVars, result>>
    /\ event' = NoEvent

\* feed_ingestion.py:76-177: the new entries become pending articles
ingest_all_feeds(p) ==
    /\ pc[p] = "ingest"
    /\ \E n \in 0..feed :
        /\ db' = [a \in Ids |->
                    IF a > nextId /\ a <= nextId + n THEN NewRow ELSE db[a]]
        /\ nextId' = nextId + n
        /\ feed' = feed - n
        /\ ingested' = [ingested EXCEPT ![p] = (nextId + 1)..(nextId + n)]
    /\ pc' = [pc EXCEPT ![p] = "call"]
    /\ UNCHANGED <<aged, triggers, ops, limit, provider, phase, crashes,
                   expired, purge, ingVars, category, locked, batchVars, result>>
    /\ event' = NoEvent

\* scheduler.py:60-78
retry_and_summarise_failed(p) ==
    /\ Idle(p)
    /\ Trigger
    /\ LET count == Cardinality(WithStatus(db, "failed")) IN
        /\ db' = retry_reset(db)
        /\ IF count > 0
           THEN pc' = [pc EXCEPT ![p] = "call"]
           ELSE UNCHANGED pc
    /\ UNCHANGED <<nextId, aged, feed, limit, provider, sysVars, locked, batchVars, result>>
    /\ event' = [job |-> "retry_failed_job", by |-> p, before |-> db]

\* admin_actions.py:391-397
trigger_summarise(p) ==
    /\ Idle(p)
    /\ Trigger
    /\ pc' = [pc EXCEPT ![p] = "call"]
    /\ UNCHANGED <<db, nextId, aged, feed, limit, provider, sysVars, locked, batchVars, result>>
    /\ event' = NoEvent

\* admin_actions.py:400-418
retry_failed(p) ==
    /\ Idle(p)
    /\ Trigger
    /\ db' = retry_reset(db)
    /\ pc' = [pc EXCEPT ![p] = "call"]
    /\ UNCHANGED <<nextId, aged, feed, limit, provider, sysVars, locked, batchVars, result>>
    /\ event' = NoEvent

\* admin_actions.py:421-441
reset_all_done(p) ==
    /\ Idle(p)
    /\ Trigger
    /\ db' = ResetRows(db, WithStatus(db, "done"))
    /\ pc' = [pc EXCEPT ![p] = "call"]
    /\ UNCHANGED <<nextId, aged, feed, limit, provider, sysVars, locked, batchVars, result>>
    /\ event' = NoEvent

----------------------------------------------------------------------------
(* process_pending_articles                                                *)

\* summariser.py:146-150: the guard, then the lock is taken without an await
Enter(p) ==
    /\ pc[p] = "call"
    /\ IF lock_locked(locked)
       THEN /\ result' = [result EXCEPT ![p] = SkippedResult]
            /\ pc' = [pc EXCEPT ![p] = "returned"]
            /\ UNCHANGED <<locked, sessionOpen>>
       ELSE IF locked
       THEN \* async with on a held lock waits for its release
            /\ pc' = [pc EXCEPT ![p] = "blocked"]
            /\ UNCHANGED <<locked, result, sessionOpen>>
       ELSE /\ locked' = lock_acquire(locked)
            /\ pc' = [pc EXCEPT ![p] = "select"]
            /\ sessionOpen' = [sessionOpen EXCEPT ![p] = TRUE]
            /\ UNCHANGED result
    /\ UNCHANGED <<db, nextId, aged, feed, triggers, ops, limit, provider, sysVars, claimVars, taskVars,
                   semVars, dirty, busy, commitErrors, countVars>>
    /\ event' = NoEvent

\* summariser.py:152-157: every pending article, oldest first, no LIMIT
pending_articlesOldest(d) ==
    IF WithStatus(d, "pending") = {} THEN <<>>
    ELSE <<Min(WithStatus(d, "pending"))>>
pending_articles(d) == order_by_fetched_at(WithStatus(d, "pending"))

\* summariser.py:152-166
Select(p) ==
    /\ pc[p] = "select"
    /\ LET ids == pending_articles(db) IN
        IF ids = <<>>
        THEN /\ result' = [result EXCEPT ![p] = EmptyResult]
             /\ locked' = lock_release(locked)
             /\ pc' = [pc EXCEPT ![p] = "returned"]
             /\ sessionOpen' = [sessionOpen EXCEPT ![p] = FALSE]
             /\ UNCHANGED <<articles, loaded>>
        ELSE /\ articles' = [articles EXCEPT ![p] = ids]
             /\ loaded' = [loaded EXCEPT ![p] =
                    [a \in Ids |->
                        IF a \in Range(ids)
                        THEN [summary |-> db[a].summary,
                              isActive |-> db[a].isActive]
                        ELSE NoLoad]]
             /\ pc' = [pc EXCEPT ![p] = "claim"]
             /\ UNCHANGED <<result, locked, sessionOpen>>
    /\ UNCHANGED <<db, nextId, aged, feed, triggers, ops, limit, provider, sysVars, marked, young,
                   taskVars, semVars,
                   dirty, busy, commitErrors, countVars>>
    /\ event' = NoEvent

\* summariser.py:169-174
ClaimUpdateNothing(d, ids) == d
ClaimUpdate(d, ids) == SetStatus(d, ids, "processing")

\* summariser.py:169-177 and 211-220: the claim is committed, then gather
\* creates one task per claimed article
Claim(p) ==
    /\ pc[p] = "claim"
    /\ db' = ClaimUpdate(db, Claimed(p))
    /\ marked' = [marked EXCEPT ![p] =
            {a \in Claimed(p) : db'[a].exists /\ db'[a].status = "processing"}]
    /\ young' = [young EXCEPT ![p] = TRUE]
    /\ task' = [task EXCEPT ![p] =
            [a \in Ids |-> IF a \in Claimed(p) THEN "waiting" ELSE "none"]]
    /\ sem' = [sem EXCEPT ![p] = limit]
    /\ inner' = [inner EXCEPT ![p] = limit]
    /\ pc' = [pc EXCEPT ![p] = "gather"]
    /\ ingested' = [ingested EXCEPT ![p] = {}]
    /\ UNCHANGED <<nextId, aged, feed, triggers, ops, limit, provider, phase,
                   crashes, expired, purge, ingVars, category, locked, articles,
                   loaded, attempts, resp, persisted, sessVars, countVars,
                   result>>
    /\ event' = NoEvent

\* summariser.py:175: the commit of the claim raises; nothing catches it
ClaimFail(p) ==
    /\ pc[p] = "claim"
    /\ result' = [result EXCEPT ![p] = Raised]
    /\ locked' = lock_release(locked)
    /\ pc' = [pc EXCEPT ![p] = "returned"]
    /\ Fresh(p)
    /\ ingested' = [ingested EXCEPT ![p] = {}]
    /\ UNCHANGED <<db, nextId, aged, feed, triggers, ops, limit, provider,
                   phase, crashes, expired, purge, ingVars, category>>
    /\ event' = NoEvent

----------------------------------------------------------------------------
(* The tasks of a batch: guarded_process, process_one, summarise_with_retry *)

Completed(p) ==
    {a \in Claimed(p) : task[p][a] \in {"finished", "rolledback", "raised"}}

\* asyncio.Semaphore wakes its waiters first in, first out
FirstWaiting(p, a) ==
    /\ task[p][a] = "waiting"
    /\ \A b \in Claimed(p) : task[p][b] = "waiting" => a <= b

\* summariser.py:213-215, 181-183, 121-123, 56-65: the task takes a permit of
\* the batch semaphore, then one of the summariser's, and posts the prompt
TaskStart(p, a) ==
    /\ FirstWaiting(p, a)
    /\ sem[p] > 0
    /\ inner[p] > 0
    /\ sem' = [sem EXCEPT ![p] = Semaphore_acquire(sem[p])]
    /\ inner' = [inner EXCEPT ![p] = Semaphore_acquire(inner[p])]
    /\ attempts' = [attempts EXCEPT ![p][a] = 1]
    /\ task' = [task EXCEPT ![p][a] = "call"]
    /\ UNCHANGED <<db, nextId, aged, feed, triggers, ops, limit, provider, sysVars, locked, pc, claimVars,
                   resp, persisted, sessVars, countVars, result>>
    /\ event' = NoEvent

\* summariser.py:124-131: what follows a SummarisationError of attempt
\* number `attempt` (0 or 1)
after_failureNoRetry(attempt) == "raise"
after_failure(attempt) == IF attempt = 0 THEN "sleep" ELSE "raise"

\* summariser.py:186-203: the status process_one sets for an answer
outcome_statusKeeps(r) == IF r = Fail THEN "processing" ELSE "done"
outcome_status(r) == IF r = Fail THEN "failed" ELSE "done"

\* summariser.py:187, 194: the summary process_one sets (old: the one loaded)
outcome_summary(r, old) ==
    IF r = Fail THEN old ELSE IF IsMarketing(r) THEN None ELSE r

\* summariser.py:189: is_active after process_one (old: the one loaded)
outcome_isActive(r, old) ==
    IF r # Fail /\ IsMarketing(r) THEN FALSE ELSE old

\* summariser.py:184-209 up to the await inside db.commit(): the attributes
\* are set on the ORM object, the counter is bumped and commit() is called.
\* A commit() or rollback() on a session whose commit is in flight raises
\* (the session is in the middle of a state change), and the rollback's
\* error leaves process_one.
process_one_outcome(p, a, r) ==
    /\ resp' = [resp EXCEPT ![p][a] = r]
    /\ attempts' = [attempts EXCEPT ![p][a] = 0]
    /\ IF r = Fail
       THEN /\ failed_count' = [failed_count EXCEPT ![p] = @ + 1]
            /\ UNCHANGED done_count
       ELSE /\ done_count' = [done_count EXCEPT ![p] = @ + 1]
            /\ UNCHANGED failed_count
    /\ LET changed == IF sessionOpen[p] THEN dirty[p] \cup {a} ELSE dirty[p] IN
        IF busy[p] = NoTxn
        THEN /\ busy' = [busy EXCEPT ![p] = [by |-> a, rows |-> changed]]
             /\ dirty' = [dirty EXCEPT ![p] = {}]
             /\ task' = [task EXCEPT ![p][a] = "commit"]
             /\ UNCHANGED <<sem, commitErrors>>
        ELSE /\ dirty' = [dirty EXCEPT ![p] = changed]
             /\ commitErrors' = [commitErrors EXCEPT ![p] = @ + 1]
             /\ task' = [task EXCEPT ![p][a] = "raised"]
             /\ sem' = [sem EXCEPT ![p] = Semaphore_release(sem[p])]
             /\ UNCHANGED busy

\* summariser.py:65-115 and 120-131: the backend answers or the call fails
InferenceReturn(p, a) ==
    /\ task[p][a] = "call"
    /\ inner' = [inner EXCEPT ![p] = Semaphore_release(inner[p])]
    /\ \E response \in Responses \cup {HttpError} :
        LET r == summarise(provider, response) IN
        IF r = Fail /\ after_failure(attempts[p][a] - 1) = "sleep"
        THEN /\ task' = [task EXCEPT ![p][a] = "sleep"]
             /\ resp' = [resp EXCEPT ![p][a] = Fail]
             /\ UNCHANGED <<attempts, sem, dirty, busy, commitErrors,
                            countVars>>
        ELSE process_one_outcome(p, a, r)
    /\ UNCHANGED <<db, nextId, aged, feed, triggers, ops, limit, provider, sysVars, locked, pc,
                   claimVars, persisted, sessionOpen, result>>
    /\ event' = NoEvent

\* summariser.py:129, then the next round of the loop at 121-123
SleepDone(p, a) ==
    /\ task[p][a] = "sleep"
    /\ inner[p] > 0
    /\ inner' = [inner EXCEPT ![p] = Semaphore_acquire(inner[p])]
    /\ attempts' = [attempts EXCEPT ![p][a] = @ + 1]
    /\ task' = [task EXCEPT ![p][a] = "call"]
    /\ UNCHANGED <<db, nextId, aged, feed, triggers, ops, limit, provider, sysVars, locked, pc, claimVars,
                   resp, persisted, sem, sessVars, countVars, result>>
    /\ event' = NoEvent

\* The UPDATE the flush emits for one object: the status always differs from
\* the loaded one; summary and is_active are sent only if their value differs
\* from the one the object was loaded with.
Flushed(p, row, a) ==
    LET r == resp[p][a]
        s == outcome_summary(r, loaded[p][a].summary)
        v == outcome_isActive(r, loaded[p][a].isActive) IN
    [row EXCEPT
        !.status = outcome_status(r),
        !.summary = IF s # loaded[p][a].summary THEN s ELSE @,
        !.isActive = IF v # loaded[p][a].isActive THEN v ELSE @]

\* summariser.py:206: the commit went through
CommitDone(p, a) ==
    /\ task[p][a] = "commit"
    /\ busy[p].by = a
    /\ \A b \in busy[p].rows : db[b].exists
    /\ db' = [b \in Ids |->
                IF b \in busy[p].rows THEN Flushed(p, db[b], b) ELSE db[b]]
    /\ persisted' = [persisted EXCEPT ![p] =
            [b \in Ids |->
                IF b \in busy[p].rows THEN outcome_status(resp[p][b]) ELSE @[b]]]
    /\ busy' = [busy EXCEPT ![p] = NoTxn]
    /\ task' = [task EXCEPT ![p][a] = "finished"]
    /\ sem' = [sem EXCEPT ![p] = Semaphore_release(sem[p])]
    /\ UNCHANGED <<nextId, aged, feed, triggers, ops, limit, provider, sysVars, locked, pc,
                   claimVars, attempts, resp, inner, dirty, sessionOpen,
                   commitErrors, countVars, result>>
    /\ event' = NoEvent

\* summariser.py:207-209: the commit raised (a storage error, or the row is
\* gone); the rollback discards every unflushed change of the session
CommitFail(p, a) ==
    /\ task[p][a] = "commit"
    /\ busy[p].by = a
    /\ commitErrors' = [commitErrors EXCEPT ![p] = @ + 1]
    /\ dirty' = [dirty EXCEPT ![p] = {}]
    /\ busy' = [busy EXCEPT ![p] = NoTxn]
    /\ task' = [task EXCEPT ![p][a] = "rolledback"]
    /\ sem' = [sem EXCEPT ![p] = Semaphore_release(sem[p])]
    /\ UNCHANGED <<db, nextId, aged, feed, triggers, ops, limit, provider, sysVars, locked, pc,
                   claimVars, attempts, resp, persisted, inner, sessionOpen,
                   countVars, result>>
    /\ event' = NoEvent

\* summariser.py:217-223: every task ended without an exception
Return(p) ==
    /\ pc[p] = "gather"
    /\ \A a \in Claimed(p) : task[p][a] \in {"finished", "rolledback"}
    /\ result' = [result EXCEPT ![p] =
            BatchResult(Len(articles[p]), done_count[p], failed_count[p])]
    /\ locked' = lock_release(locked)
    /\ pc' = [pc EXCEPT ![p] = "returned"]
    /\ Fresh(p)
    /\ UNCHANGED <<db, nextId, aged, feed, triggers, ops, limit, provider, sysVars>>
    /\ event' = NoEvent

\* summariser.py:217: gather re-raises the exception of a task; the lock is
\* released and the caller's session closed while the other tasks run on
Abort(p) ==
    /\ pc[p] = "gather"
    /\ \E a \in Claimed(p) : task[p][a] = "raised"
    /\ Completed(p) # Claimed(p)
    /\ result' = [result EXCEPT ![p] = Raised]
    /\ locked' = lock_release(locked)
    /\ pc' = [pc EXCEPT ![p] = "aborted"]
    /\ sessionOpen' = [sessionOpen EXCEPT ![p] = FALSE]
    /\ dirty' = [dirty EXCEPT ![p] = {}]
    /\ UNCHANGED <<db, nextId, aged, feed, triggers, ops, limit, provider, sysVars, claimVars, task,
                   attempts, resp, persisted, semVars, busy, commitErrors,
                   countVars>>
    /\ event' = NoEvent

\* As Abort, when the raising task was the last one to end
AbortLast(p) ==
    /\ pc[p] = "gather"
    /\ \E a \in Claimed(p) : task[p][a] = "raised"
    /\ Completed(p) = Claimed(p)
    /\ result' = [result EXCEPT ![p] = Raised]
    /\ locked' = lock_release(locked)
    /\ pc' = [pc EXCEPT ![p] = "returned"]
    /\ Fresh(p)
    /\ UNCHANGED <<db, nextId, aged, feed, triggers, ops, limit, provider, sysVars>>
    /\ event' = NoEvent

\* The last task left behind by an aborted batch has ended
Reap(p) ==
    /\ pc[p] = "aborted"
    /\ Completed(p) = Claimed(p)
    /\ pc' = [pc EXCEPT ![p] = "returned"]
    /\ Fresh(p)
    /\ UNCHANGED <<db, nextId, aged, feed, triggers, ops, limit, provider, sysVars, locked, result>>
    /\ event' = NoEvent

\* The caller is done with the result (scheduler.py:57, admin_actions.py:456)
Leave(p) ==
    /\ pc[p] = "returned"
    /\ pc' = [pc EXCEPT ![p] = "idle"]
    /\ result' = [result EXCEPT ![p] = NoResult]
    /\ ingested' = [ingested EXCEPT ![p] = {}]
    /\ UNCHANGED <<db, nextId, aged, feed, triggers, ops, limit, provider,
                   phase, crashes, expired, purge, ingVars, category, locked,
                   batchVars>>
    /\ event' = NoEvent

----------------------------------------------------------------------------
(* Jobs and manual actions that do not call process_pending_articles       *)

\* scheduler.py:16 and 131: one more article has been fetched more than
\* STUCK_THRESHOLD_MINUTES ago
Tick ==
    /\ aged < nextId
    /\ aged' = aged + 1
    /\ UNCHANGED <<db, nextId, feed, triggers, ops, limit, provider, sysVars, locked, pc, batchVars, result>>
    /\ event' = NoEvent

\* scheduler.py:130-137: the rows the watchdog's UPDATE matches; the
\* articles 1..cutoff are those fetched before the cutoff
stuckNone(d, cutoff) == {}
stuck(d, cutoff) == {a \in WithStatus(d, "processing") : a <= cutoff}

\* scheduler.py:132-137: UPDATE articles SET summary_status='pending'
\* WHERE summary_status='processing' AND fetched_at < :cutoff
watchdog_reset(d, cutoff) == SetStatus(d, stuck(d, cutoff), "pending")

\* scheduler.py:125-139
watchdog_stuck_articles ==
    /\ Op
    /\ db' = watchdog_reset(db, aged)
    /\ UNCHANGED <<nextId, aged, feed, limit, provider, sysVars, locked, pc, batchVars, result>>
    /\ event' = [job |-> "watchdog", by |-> 0, before |-> db]

\* admin_actions.py:268-278
reset_article_status(a) ==
    /\ db[a].exists
    /\ Op
    /\ db' = SetStatus(db, {a}, "pending")
    /\ UNCHANGED <<nextId, aged, feed, limit, provider, sysVars, locked, pc, batchVars, result>>
    /\ event' = NoEvent

\* admin_actions.py:310-317
bulk_article_action_reset(ids) ==
    /\ ids # {}
    /\ \A a \in ids : db[a].exists
    /\ Op
    /\ db' = ResetRows(db, ids)
    /\ UNCHANGED <<nextId, aged, feed, limit, provider, sysVars, locked, pc, batchVars, result>>
    /\ event' = NoEvent

----------------------------------------------------------------------------
(* The process dies and is started again                                   *)

\* The process is killed: its coroutines, the lock and the sessions are gone,
\* an open transaction is never committed; the table stays as it is
Crash ==
    /\ crashes > 0
    /\ crashes' = crashes - 1
    /\ phase = "running"
    /\ phase' = "starting"
    /\ locked' = FALSE
    /\ pc' = [p \in Callers |-> "idle"]
    /\ articles' = [p \in Callers |-> <<>>]
    /\ loaded' = [p \in Callers |-> [a \in Ids |-> NoLoad]]
    /\ marked' = [p \in Callers |-> {}]
    /\ young' = [p \in Callers |-> FALSE]
    /\ task' = [p \in Callers |-> [a \in Ids |-> "none"]]
    /\ attempts' = [p \in Callers |-> [a \in Ids |-> 0]]
    /\ resp' = [p \in Callers |-> [a \in Ids |-> NoResp]]
    /\ persisted' = [p \in Callers |-> [a \in Ids |-> "none"]]
    /\ sem' = [p \in Callers |-> 0]
    /\ inner' = [p \in Callers |-> 0]
    /\ dirty' = [p \in Callers |-> {}]
    /\ busy' = [p \in Callers |-> NoTxn]
    /\ sessionOpen' = [p \in Callers |-> FALSE]
    /\ commitErrors' = [p \in Callers |-> 0]
    /\ done_count' = [p \in Callers |-> 0]
    /\ failed_count' = [p \in Callers |-> 0]
    /\ result' = [p \in Callers |-> NoResult]
    /\ purge' = NoPurge
    /\ ingested' = [p \in Callers |-> {}]
    /\ event' = NoEvent
    /\ UNCHANGED <<db, nextId, aged, feed, triggers, ops, limit, provider,
                   expired, ingVars, category>>

\* main.py:85-89
recoverNothing(d) == d
recover(d) == SetStatus(d, WithStatus(d, "processing"), "pending")

\* main.py:83-99: startup recovery, then the scheduler is started
lifespan ==
    /\ phase = "starting"
    /\ db' = recover(db)
    /\ phase' = "running"
    /\ event' = [job |-> "startup_recovery", by |-> 0, before |-> db]
    /\ UNCHANGED <<nextId, aged, feed, triggers, ops, limit, provider,
                   crashes, expired, purge, ingVars, category, ingested, locked, pc,
                   batchVars, result>>

\* STUCK_THRESHOLD_MINUTES have passed since the claim of the batch
ClaimAged(p) ==
    /\ young[p]
    /\ young' = [young EXCEPT ![p] = FALSE]
    /\ event' = NoEvent
    /\ UNCHANGED <<db, nextId, aged, feed, triggers, ops, limit, provider,
                   sysVars, locked, pc, articles, loaded, marked, taskVars,
                   semVars, sessVars, countVars, result>>

----------------------------------------------------------------------------
Next ==
    \/ \E p \in Callers : ingest_and_summarise(p)
    \/ \E p \in Callers : ingest_all_feeds(p)
    \/ \E p \in Callers : retry_and_summarise_failed(p)
    \/ \E p \in Callers : trigger_summarise(p)
    \/ \E p \in Callers : retry_failed(p)
    \/ \E p \in Callers : reset_all_done(p)
    \/ \E p \in Callers : Enter(p)
    \/ \E p \in Callers : Select(p)
    \/ \E p \in Callers : Claim(p)
    \/ \E p \in Callers : ClaimFail(p)
    \/ \E p \in Callers, a \in Ids : TaskStart(p, a)
    \/ \E p \in Callers, a \in Ids : InferenceReturn(p, a)
    \/ \E p \in Callers, a \in Ids : SleepDone(p, a)
    \/ \E p \in Callers, a \in Ids : CommitDone(p, a)
    \/ \E p \in Callers, a \in Ids : CommitFail(p, a)
    \/ \E p \in Callers : Return(p)
    \/ \E p \in Callers : Abort(p)
    \/ \E p \in Callers : AbortLast(p)
    \/ \E p \in Callers : Reap(p)
    \/ \E p \in Callers : Leave(p)
    \/ Tick
    \/ watchdog_stuck_articles
    \/ \E a \in Ids : reset_article_status(a)
    \/ \E ids \in SUBSET Ids : bulk_article_action_reset(ids)

Spec == Init /\ [][Next]_vars

----------------------------------------------------------------------------
(* The pipeline with restarts                                              *)

InitJobs ==
    /\ db = [a \in Ids |-> NoRow]
    /\ nextId = 0
    /\ aged = 0
    /\ feed = NumArticles
    /\ triggers = JobTriggers
    /\ ops = MaxOps
    /\ limit \in 1..MaxConcurrency
    /\ provider = "ollama"
    /\ phase = "starting"
    /\ crashes = MaxCrashes
    /\ expired = 0
    /\ purge = NoPurge
    /\ IngestIdle
    /\ category = [a \in Ids |-> "general"]
    /\ ingested = [p \in Callers |-> {}]
    /\ event = NoEvent
    /\ young = [p \in Callers |-> FALSE]
    /\ locked = FALSE
    /\ pc = [p \in Callers |-> "idle"]
    /\ articles = [p \in Callers |-> <<>>]
    /\ loaded = [p \in Callers |-> [a \in Ids |-> NoLoad]]
    /\ marked = [p \in Callers |-> {}]
    /\ task = [p \in Callers |-> [a \in Ids |-> "none"]]
    /\ attempts = [p \in Callers |-> [a \in Ids |-> 0]]
    /\ resp = [p \in Callers |-> [a \in Ids |-> NoResp]]
    /\ persisted = [p \in Callers |-> [a \in Ids |-> "none"]]
    /\ sem = [p \in Callers |-> 0]
    /\ inner = [p \in Callers |-> 0]
    /\ dirty = [p \in Callers |-> {}]
    /\ busy = [p \in Callers |-> NoTxn]
    /\ sessionOpen = [p \in Callers |-> FALSE]
    /\ commitErrors = [p \in Callers |-> 0]
    /\ done_count = [p \in Callers |-> 0]
    /\ failed_count = [p \in Callers |-> 0]
    /\ result = [p \in Callers |-> NoResult]

NextJobs ==
    \/ Next
    \/ Crash
    \/ lifespan
    \/ \E p \in Callers : ClaimAged(p)

SpecJobs == InitJobs /\ [][NextJobs]_vars

----------------------------------------------------------------------------
(* The scheduler's jobs firing for ever, with fairness: the database holds *)
(* LiveArticles pending articles fetched longer ago than the stuck         *)
(* threshold, and the feeds have nothing new                               *)

InitLive(prov, watchdogRuns) ==
    /\ db = [a \in Ids |-> IF a <= LiveArticles THEN NewRow ELSE NoRow]
    /\ nextId = LiveArticles
    /\ aged = LiveArticles
    /\ feed = 0
    /\ triggers = Forever
    /\ ops = watchdogRuns
    /\ limit = MaxConcurrency
    /\ provider = prov
    /\ phase = "running"
    /\ crashes = 0
    /\ expired = 0
    /\ purge = NoPurge
    /\ IngestIdle
    /\ category = [a \in Ids |-> "general"]
    /\ ingested = [p \in Callers |-> {}]
    /\ event = NoEvent
    /\ young = [p \in Callers |-> FALSE]
    /\ locked = FALSE
    /\ pc = [p \in Callers |-> "idle"]
    /\ articles = [p \in Callers |-> <<>>]
    /\ loaded = [p \in Callers |-> [a \in Ids |-> NoLoad]]
    /\ marked = [p \in Callers |-> {}]
    /\ task = [p \in Callers |-> [a \in Ids |-> "none"]]
    /\ attempts = [p \in Callers |-> [a \in Ids |-> 0]]
    /\ resp = [p \in Callers |-> [a \in Ids |-> NoResp]]
    /\ persisted = [p \in Callers |-> [a \in Ids |-> "none"]]
    /\ sem = [p \in Callers |-> 0]
    /\ inner = [p \in Callers |-> 0]
    /\ dirty = [p \in Callers |-> {}]
    /\ busy = [p \in Callers |-> NoTxn]
    /\ sessionOpen = [p \in Callers |-> FALSE]
    /\ commitErrors = [p \in Callers |-> 0]
    /\ done_count = [p \in Callers |-> 0]
    /\ failed_count = [p \in Callers |-> 0]
    /\ result = [p \in Callers |-> NoResult]

NextLive ==
    \/ \E p \in Callers : ingest_and_summarise(p)
    \/ \E p \in Callers : ingest_all_feeds(p)
    \/ \E p \in Callers : retry_and_summarise_failed(p)
    \/ \E p \in Callers : Enter(p)
    \/ \E p \in Callers : Select(p)
    \/ \E p \in Callers : Claim(p)
    \/ \E p \in Callers, a \in Ids : TaskStart(p, a)
    \/ \E p \in Callers, a \in Ids : InferenceReturn(p, a)
    \/ \E p \in Callers, a \in Ids : SleepDone(p, a)
    \/ \E p \in Callers, a \in Ids : CommitDone(p, a)
    \/ \E p \in Callers : Return(p)
    \/ \E p \in Callers : Abort(p)
    \/ \E p \in Callers : AbortLast(p)
    \/ \E p \in Callers : Reap(p)
    \/ \E p \in Callers : Leave(p)
    \/ watchdog_stuck_articles

\* A step of the coroutines of caller p
Runs(p) ==
    \/ ingest_all_feeds(p) \/ Enter(p) \/ Select(p) \/ Claim(p)
    \/ \E a \in Ids : TaskStart(p, a) \/ InferenceReturn(p, a)
    \/ \E a \in Ids : SleepDone(p, a) \/ CommitDone(p, a)
    \/ Return(p) \/ Abort(p) \/ AbortLast(p) \/ Reap(p) \/ Leave(p)

\* The scheduler fires every job again and again (scheduler.py:21-49), the
\* event loop runs every coroutine that can run, every inference call
\* returns or times out (summariser.py:65, 84, 97) and every commit ends.
FairLive ==
    /\ WF_vars(watchdog_stuck_articles)
    /\ SF_vars(\E p \in Callers : ingest_and_summarise(p))
    /\ SF_vars(\E p \in Callers : retry_and_summarise_failed(p))
    /\ \A p \in Callers : WF_vars(Runs(p))

\* Every backend call fails (LLM_PROVIDER names no backend the summariser
\* knows) and the watchdog fires for ever
SpecLive == InitLive("unknown", Forever) /\ [][NextLive]_vars /\ FairLive

\* The default backend; the watchdog fires MaxOps times
SpecOverlap == InitLive("ollama", MaxOps) /\ [][NextLive]_vars /\ FairLive

----------------------------------------------------------------------------
(* The purge job                                                           *)

\* categoriser.py:63: two of the slugs categorise() returns
Categories == {"general", "malware"}

\* scheduler.py:92-97: the categories with a done article fetched at or
\* after the cutoff; the articles 1..cutoff are those fetched before it
safe_categoriesAll(d, cutoff) == Categories
safe_categories(d, cutoff) ==
    {category[a] : a \in {b \in WithStatus(d, "done") : b > cutoff}}

\* scheduler.py:100-117: r1 deletes the old articles that are not done, r2
\* the old done articles of the safe categories
purgedAnyAge(d, cutoff, safe) ==
    [a \in Ids |->
        IF /\ d[a].exists
           /\ (d[a].status # "done" \/ category[a] \in safe)
        THEN NoRow ELSE d[a]]
purged(d, cutoff, safe) ==
    [a \in Ids |->
        IF /\ d[a].exists
           /\ a <= cutoff
           /\ (d[a].status # "done" \/ category[a] \in safe)
        THEN NoRow ELSE d[a]]

\* scheduler.py:88-97: the job fixes its cutoff and reads the categories
purge_old_articles ==
    /\ phase = "running"
    /\ ~purge.active
    /\ purge' = [active |-> TRUE, cutoff |-> expired,
                 safe_categories |-> safe_categories(db, expired),
                 seen |-> db]
    /\ event' = NoEvent
    /\ UNCHANGED <<db, nextId, aged, feed, triggers, ops, limit, provider,
                   phase, crashes, expired, ingVars, category, ingested, locked, pc,
                   batchVars, result>>

\* scheduler.py:100-119: both deletes and the commit
purge_commit ==
    /\ purge.active
    /\ db' = purged(db, purge.cutoff, purge.safe_categories)
    /\ purge' = NoPurge
    /\ event' = [job |-> "purge_job", by |-> 0, before |-> db,
                 seen |-> purge.seen, cutoff |-> purge.cutoff]
    /\ UNCHANGED <<nextId, aged, feed, triggers, ops, limit, provider,
                   phase, crashes, expired, ingVars, category, ingested, locked, pc,
                   batchVars, result>>

\* config.py:22: one more article has been fetched more than
\* ARTICLE_RETENTION_DAYS ago
TickRetention ==
    /\ expired < aged
    /\ expired' = expired + 1
    /\ event' = NoEvent
    /\ UNCHANGED <<db, nextId, aged, feed, triggers, ops, limit, provider,
                   phase, crashes, purge, ingVars, category, ingested, locked, pc,
                   batchVars, result>>

\* A row of the table with a given status
RowWith(st) ==
    [NewRow EXCEPT !.status = st,
                   !.summary = IF st = "done" THEN <<"w">> ELSE None]

\* A table of articles of any status and category, some of them fetched
\* before the retention cutoff, and no batch running
InitPurge ==
    /\ \E st \in [Ids -> {"pending", "processing", "done", "failed"}] :
            db = [a \in Ids |-> RowWith(st[a])]
    /\ nextId = Cardinality(Ids)
    /\ aged = Cardinality(Ids)
    /\ feed = 0
    /\ triggers = 0
    /\ ops = MaxOps
    /\ limit = 1
    /\ provider = "ollama"
    /\ phase = "running"
    /\ crashes = 0
    /\ expired \in 0..Cardinality(Ids)
    /\ purge = NoPurge
    /\ IngestIdle
    /\ category \in [Ids -> Categories]
    /\ ingested = [p \in Callers |-> {}]
    /\ event = NoEvent
    /\ young = [p \in Callers |-> FALSE]
    /\ locked = FALSE
    /\ pc = [p \in Callers |-> "idle"]
    /\ articles = [p \in Callers |-> <<>>]
    /\ loaded = [p \in Callers |-> [a \in Ids |-> NoLoad]]
    /\ marked = [p \in Callers |-> {}]
    /\ task = [p \in Callers |-> [a \in Ids |-> "none"]]
    /\ attempts = [p \in Callers |-> [a \in Ids |-> 0]]
    /\ resp = [p \in Callers |-> [a \in Ids |-> NoResp]]
    /\ persisted = [p \in Callers |-> [a \in Ids |-> "none"]]
    /\ sem = [p \in Callers |-> 0]
    /\ inner = [p \in Callers |-> 0]
    /\ dirty = [p \in Callers |-> {}]
    /\ busy = [p \in Callers |-> NoTxn]
    /\ sessionOpen = [p \in Callers |-> FALSE]
    /\ commitErrors = [p \in Callers |-> 0]
    /\ done_count = [p \in Callers |-> 0]
    /\ failed_count = [p \in Callers |-> 0]
    /\ result = [p \in Callers |-> NoResult]

NextPurge ==
    \/ purge_old_articles
    \/ purge_commit
    \/ TickRetention
    \/ \E a \in Ids : reset_article_status(a)

SpecPurge == InitPurge /\ [][NextPurge]_vars

----------------------------------------------------------------------------
(* One fetch+summarise cycle on its own, with more articles               *)

InitBatch ==
    /\ db = [a \in Ids |-> NoRow]
    /\ nextId = 0
    /\ aged = 0
    /\ feed = BatchArticles
    /\ triggers = 1
    /\ ops = 0
    /\ limit \in 1..MaxConcurrency
    /\ provider \in Providers
    /\ phase = "running"
    /\ crashes = 0
    /\ expired = 0
    /\ purge = NoPurge
    /\ IngestIdle
    /\ category = [a \in Ids |-> "general"]
    /\ ingested = [p \in Callers |-> {}]
    /\ event = NoEvent
    /\ young = [p \in Callers |-> FALSE]
    /\ locked = FALSE
    /\ pc = [p \in Callers |-> "idle"]
    /\ articles = [p \in Callers |-> <<>>]
    /\ loaded = [p \in Callers |-> [a \in Ids |-> NoLoad]]
    /\ marked = [p \in Callers |-> {}]
    /\ task = [p \in Callers |-> [a \in Ids |-> "none"]]
    /\ attempts = [p \in Callers |-> [a \in Ids |-> 0]]
    /\ resp = [p \in Callers |-> [a \in Ids |-> NoResp]]
    /\ persisted = [p \in Callers |-> [a \in Ids |-> "none"]]
    /\ sem = [p \in Callers |-> 0]
    /\ inner = [p \in Callers |-> 0]
    /\ dirty = [p \in Callers |-> {}]
    /\ busy = [p \in Callers |-> NoTxn]
    /\ sessionOpen = [p \in Callers |-> FALSE]
    /\ commitErrors = [p \in Callers |-> 0]
    /\ done_count = [p \in Callers |-> 0]
    /\ failed_count = [p \in Callers |-> 0]
    /\ result = [p \in Callers |-> NoResult]

NextBatch ==
    \/ \E p \in Callers : ingest_and_summarise(p)
    \/ \E p \in Callers : ingest_all_feeds(p)
    \/ \E p \in Callers : Enter(p)
    \/ \E p \in Callers : Select(p)
    \/ \E p \in Callers : Claim(p)
    \/ \E p \in Callers : ClaimFail(p)
    \/ \E p \in Callers, a \in Ids : TaskStart(p, a)
    \/ \E p \in Callers, a \in Ids : InferenceReturn(p, a)
    \/ \E p \in Callers, a \in Ids : SleepDone(p, a)
    \/ \E p \in Callers, a \in Ids : CommitDone(p, a)
    \/ \E p \in Callers, a \in Ids : CommitFail(p, a)
    \/ \E p \in Callers : Return(p)
    \/ \E p \in Callers : Abort(p)
    \/ \E p \in Callers : AbortLast(p)
    \/ \E p \in Callers : Reap(p)
    \/ \E p \in Callers : Leave(p)

SpecBatch == InitBatch /\ [][NextBatch]_vars

----------------------------------------------------------------------------
(* Properties                                                              *)

InBatch(p) == pc[p] \in {"select", "claim", "gather"}

\* C1 (single flight): between taking the guard and returning, at most one
\* invocation of process_pending_articles is running, whatever mix of the
\* fetch job, the retry job and the admin endpoints called it.
C1_SingleFlight == Cardinality({p \in Callers : InBatch(p)}) <= 1

\* A second caller is about to enter while a batch is running
C1_Witness == \E p, q \in Callers : InBatch(p) /\ pc[q] = "call"

\* C2 (skipped call): a call made while the lock is held returns at once with
\* processed = done = failed = 0 and skipped = true; the step changes no
\* article, issues no inference call and gives the caller no article to
\* process.
C2_SkippedCallFrame ==
    [][\A p \in Callers :
        (pc[p] = "call" /\ locked /\ pc'[p] # "call") =>
            /\ pc'[p] = "returned"
            /\ result'[p] = [kind |-> "returned", processed |-> 0, done |-> 0,
                             failed |-> 0, skipped |-> TRUE]
            /\ db' = db
            /\ attempts' = attempts
            /\ task' = task
            /\ articles' = articles
            /\ locked' = locked]_vars

\* A call was skipped while the running batch has an inference call open
C2_Witness ==
    \E p, q \in Callers :
        /\ pc[q] = "returned"
        /\ result[q].kind = "returned"
        /\ result[q].skipped
        /\ pc[p] = "gather"
        /\ \E a \in Ids : task[p][a] = "call"

Started(p) == {a \in Ids : task[p][a] \notin {"none", "waiting"}}

\* C3 (claim, then execute): no task exists before the claim is committed, and
\* once the first inference call of a batch is issued every article the batch
\* selected has been moved to processing by the committed claim.
C3_ClaimBeforeInference ==
    \A p \in Callers :
        /\ pc[p] \in {"select", "claim"} =>
                \A a \in Ids : task[p][a] = "none" /\ attempts[p][a] = 0
        /\ Started(p) # {} =>
                /\ pc[p] \in {"gather", "aborted"}
                /\ \A a \in Claimed(p) : a \in marked[p] \/ ~db[a].exists

\* The first call is open, another claimed article still waits for a permit
\* and is already processing
C3_Witness ==
    \E p \in Callers : \E a, b \in Claimed(p) :
        /\ task[p][a] = "call"
        /\ task[p][b] = "waiting"
        /\ db[b].status = "processing"
        /\ Started(p) = {a}

StatusEdges ==
    {<<"pending", "processing">>, <<"processing", "done">>,
     <<"processing", "failed">>, <<"failed", "pending">>,
     <<"done", "pending">>, <<"processing", "pending">>}

\* C4 (status edges): the status of a stored article changes only along
\* pending -> processing, processing -> done, processing -> failed,
\* failed -> pending, done -> pending and processing -> pending; never
\* from pending straight to done or failed.
C4_StatusEdges ==
    [][\A a \in Ids :
        (db[a].exists /\ db'[a].exists /\ db'[a].status # db[a].status) =>
            <<db[a].status, db'[a].status>> \in StatusEdges]_vars

\* C5 (commit errors stay local): when the tasks of a batch have all ended,
\* every claimed article whose own commit raised nothing has its done or
\* failed outcome stored, whatever happened to the commits of the others.
C5_CommitErrorIsolated ==
    \A p \in Callers :
        (pc[p] \in {"gather", "aborted"} /\ Claimed(p) # {}
            /\ Completed(p) = Claimed(p)) =>
                \A a \in Claimed(p) :
                    task[p][a] = "finished" =>
                        persisted[p][a] \in {"done", "failed"}

AllCommitted(p) ==
    /\ pc[p] = "gather"
    /\ Claimed(p) # {}
    /\ \A a \in Claimed(p) : task[p][a] = "finished"

\* C6 (failure isolation): when a batch is about to return and every commit
\* went through, every claimed article was attempted and stored as done or
\* failed, and none is left in processing, also when the inference of some
\* of them failed after its retry.
C6_FailureIsolation ==
    \A p \in Callers :
        AllCommitted(p) =>
            \A a \in Claimed(p) :
                /\ persisted[p][a] \in {"done", "failed"}
                /\ db[a].exists => db[a].status # "processing"

\* One article failed, another one of the same batch was summarised
C6_Witness ==
    \E p \in Callers : \E a, b \in Claimed(p) :
        /\ AllCommitted(p)
        /\ persisted[p][a] = "failed"
        /\ persisted[p][b] = "done"
        /\ db[a].status = "failed"
        /\ db[b].status = "done"

InFlight(p) == {a \in Ids : task[p][a] = "call"}

\* C7 (bounded concurrency): the inference calls in flight never exceed
\* SUMMARISATION_CONCURRENCY.
C7_BoundedConcurrency ==
    \A p \in Callers : Cardinality(InFlight(p)) <= limit

\* The limit is reached and a claimed article waits for a permit
C7_Witness ==
    \E p \in Callers :
        /\ Cardinality(InFlight(p)) = limit
        /\ \E a \in Claimed(p) : task[p][a] = "waiting"

BatchEnded(p) ==
    /\ pc[p] \in {"gather", "aborted"}
    /\ Claimed(p) # {}
    /\ Completed(p) = Claimed(p)

CarriesToken(r) == \E i \in 1..Len(r) : upper(<<r[i]>>) = MARKETING_ONLY_TOKEN

\* C8 (successful outcome): when the backend answered an article with a text
\* that does not carry the sentinel token and the article's commit raised no
\* error, then once the tasks of the batch have ended the article is done,
\* its summary is that text and its isActive flag is as it was.
C8_SuccessOutcome ==
    \A p \in Callers :
        BatchEnded(p) =>
            \A a \in Claimed(p) :
                (task[p][a] = "finished" /\ resp[p][a] # Fail
                    /\ len(resp[p][a]) >= MinSummaryLen
                    /\ ~CarriesToken(resp[p][a])) =>
                        /\ db[a].status = "done"
                        /\ db[a].summary = resp[p][a]
                        /\ db[a].isActive = loaded[p][a].isActive

\* C9 (sentinel outcome): when the backend answered an article with the token
\* MARKETING_ONLY and the article's commit raised no error, then once the
\* tasks of the batch have ended the article is done, has no summary, is
\* inactive, and was counted in done.
C9_SentinelOutcome ==
    \A p \in Callers :
        BatchEnded(p) =>
            \A a \in Claimed(p) :
                (task[p][a] = "finished"
                    /\ resp[p][a] = MARKETING_ONLY_TOKEN) =>
                        /\ db[a].status = "done"
                        /\ db[a].summary = None
                        /\ db[a].isActive = FALSE
                        /\ done_count[p] > 0

\* C10 (retry budget): an article gets at most two inference calls; the
\* second one starts only after the first one failed and the delay passed;
\* a successful call ends the attempts; the failure reaches process_one only
\* after the second call failed.
C10_RetryBudget ==
    [][\A p \in Callers, a \in Ids :
        /\ attempts'[p][a] <= 2
        /\ (attempts'[p][a] = 2 /\ attempts[p][a] # 2) =>
                /\ task[p][a] = "sleep"
                /\ attempts[p][a] = 1
                /\ resp[p][a] = Fail
        /\ (task'[p][a] = "sleep" /\ task[p][a] # "sleep") =>
                /\ task[p][a] = "call"
                /\ attempts[p][a] = 1
                /\ resp'[p][a] = Fail
        /\ (task[p][a] = "call" /\ task'[p][a] \in {"commit", "raised"}) =>
                /\ attempts'[p][a] = 0
                /\ failed_count'[p] # failed_count[p] => attempts[p][a] = 2
                /\ failed_count'[p] = failed_count[p] =>
                        done_count'[p] = done_count[p] + 1]_vars

\* The second call of an article is open
C10_Witness ==
    \E p \in Callers, a \in Ids :
        /\ task[p][a] = "call"
        /\ attempts[p][a] = 2
        /\ resp[p][a] = Fail

\* C11 (failure outcome): when both inference calls of an article failed and
\* the article's commit raised no error, then once the tasks of the batch
\* have ended the article is failed, its summary and isActive flag are as
\* they were, and the batch counted it in failed.
C11_FailureOutcome ==
    \A p \in Callers :
        BatchEnded(p) =>
            \A a \in Claimed(p) :
                (task[p][a] = "finished" /\ resp[p][a] = Fail) =>
                    /\ db[a].status = "failed"
                    /\ db[a].summary = loaded[p][a].summary
                    /\ db[a].isActive = loaded[p][a].isActive
                    /\ failed_count[p] > 0

\* C12 (unknown provider): with a provider identifier that is none of ollama,
\* openai and groq, no article gets a second inference call and no task
\* sleeps for the retry delay, and an article whose commit raised no error
\* is failed once the tasks of the batch have ended.
C12_UnknownProviderNotRetried ==
    provider = "unknown" =>
        \A p \in Callers :
            /\ \A a \in Ids : attempts[p][a] <= 1 /\ task[p][a] # "sleep"
            /\ BatchEnded(p) =>
                  \A a \in Claimed(p) :
                      task[p][a] = "finished" => db[a].status = "failed"

\* C13 (empty or short responses): whatever the backend, no article is done
\* with a summary that is empty or shorter than a plausible one; only the
\* sentinel path leaves a done article without a summary.
C13_NoEmptySummaryDone ==
    \A a \in Ids :
        (db[a].exists /\ db[a].status = "done" /\ db[a].summary # None) =>
            len(db[a].summary) >= MinSummaryLen

\* C14 (startup recovery): while the process starts, no job, ingestion or
\* batch runs; the recovery of the lifespan leaves no article processing,
\* makes every article that was processing pending and leaves the articles
\* that were pending, done or failed as they were.
C14_StartupRecovery ==
    /\ phase = "starting" =>
            /\ ~locked
            /\ \A p \in Callers : pc[p] = "idle" /\ Claimed(p) = {}
    /\ event.job = "startup_recovery" =>
            /\ phase = "running"
            /\ \A a \in Ids :
                /\ db[a].status # "processing"
                /\ event.before[a].status = "processing" =>
                        db[a] = [event.before[a] EXCEPT !.status = "pending"]
                /\ event.before[a].status # "processing" =>
                        db[a] = event.before[a]

\* The process died in the middle of a batch: the recovery found one article
\* processing and another one done or failed
C14_Witness ==
    /\ event.job = "startup_recovery"
    /\ \E a, b \in Ids :
        /\ event.before[a].status = "processing"
        /\ db[a].status = "pending"
        /\ event.before[b].status \in {"done", "failed"}

\* C15: an article that was in processing with no batch working on it and
\* that was fetched longer ago than the stuck threshold is pending after a
\* run of the watchdog job.
C15_WatchdogHeals ==
    event.job = "watchdog" =>
        \A a \in Ids :
            (/\ event.before[a].status = "processing"
             /\ a <= aged
             /\ \A p \in Callers : a \notin Claimed(p))
                => db[a] = [event.before[a] EXCEPT !.status = "pending"]

C15_Witness ==
    /\ event.job = "watchdog"
    /\ \E a \in Ids :
        /\ event.before[a].status = "processing"
        /\ a <= aged
        /\ \A p \in Callers : a \notin Claimed(p)
        /\ db[a].status = "pending"

\* C16: a watchdog run leaves in processing every article that a running
\* batch claimed less than the stuck threshold ago, whatever its fetch time.
C16_WatchdogSparesYoungClaims ==
    event.job = "watchdog" =>
        \A p \in Callers : \A a \in Claimed(p) :
            (/\ young[p]
             /\ pc[p] = "gather"
             /\ event.before[a].status = "processing")
                => db[a].status = "processing"

\* C17: a run of the failed-retry job leaves no article failed and invokes
\* process_pending_articles, whether or not any article was failed.
C17_RetryJobTriggersBatch ==
    event.job = "retry_failed_job" =>
        /\ WithStatus(db, "failed") = {}
        /\ pc[event.by] = "call"

\* C18: every article that is failed is later claimed again by a batch
\* (it reaches processing).
C18_FailedIsClaimedAgain ==
    \A a \in Ids :
        (db[a].exists /\ db[a].status = "failed")
            ~> (db[a].exists /\ db[a].status = "processing")

\* C19: every article that is pending or processing later reaches done or
\* failed.
C19_RecoversForward ==
    \A a \in Ids :
        (db[a].exists /\ db[a].status \in {"pending", "processing"})
            ~> (db[a].exists /\ db[a].status \in {"done", "failed"})

\* The categories that had no done article inside the retention window
\* when the purge pass that just ended read the table
Unprotected ==
    {c \in Categories :
        \A a \in Ids : ~(/\ event.seen[a].exists
                          /\ event.seen[a].status = "done"
                          /\ category[a] = c
                          /\ a > event.cutoff)}

\* C20: a purge pass deletes no done article of a category that had no done
\* article inside the retention window, however old the article is.
C20_PurgeProtection ==
    event.job = "purge_job" =>
        \A a \in Ids :
            (/\ category[a] \in Unprotected
             /\ event.before[a].exists
             /\ event.before[a].status = "done")
                => db[a] = event.before[a]

C20_Witness ==
    /\ event.job = "purge_job"
    /\ \E a, b \in Ids :
        /\ category[a] \in Unprotected
        /\ a <= event.cutoff
        /\ event.before[a].status = "done"
        /\ db[a].exists
        /\ category[b] \notin Unprotected
        /\ event.before[b].status = "done"
        /\ ~db[b].exists

\* C21: a purge pass deletes exactly the articles fetched before its cutoff
\* that are not done, or are done in a category that had a done article
\* inside the retention window; every other row is left as it was.
C21_PurgeDeletesExactly ==
    event.job = "purge_job" =>
        \A a \in Ids :
            LET old == event.before[a]
                due == /\ old.exists
                       /\ a <= event.cutoff
                       /\ (old.status # "done"
                            \/ category[a] \notin Unprotected) IN
            /\ due => ~db[a].exists
            /\ ~due => db[a] = old

C21_Witness ==
    /\ event.job = "purge_job"
    /\ \E a, b, c \in Ids :
        /\ a <= event.cutoff /\ event.before[a].status = "failed"
        /\ ~db[a].exists
        /\ b <= event.cutoff /\ event.before[b].status = "done"
        /\ ~db[b].exists
        /\ c > event.cutoff /\ event.before[c].status = "pending"
        /\ db[c].exists

\* The categories with a done article in table d
WithDone(d) ==
    {category[a] : a \in {b \in Ids : d[b].exists /\ d[b].status = "done"}}

\* C22: a purge pass never empties a category: a category that had a done
\* article when the pass read the table, and has one when the pass
\* deletes, has one after the pass.
C22_PurgeNeverEmpties ==
    event.job = "purge_job" =>
        \A c \in WithDone(event.seen) \cap WithDone(event.before) :
            c \in WithDone(db)

\* C23 (as stated): when the batch of a fetch+summarise cycle is not
\* skipped, every article the cycle's ingestion persisted is claimed by it.
C23_CycleClaimsItsArticles ==
    \A p \in Callers :
        /\ pc[p] = "claim" => ingested[p] \subseteq Claimed(p)
        /\ (pc[p] = "returned" /\ result[p] = EmptyResult)
                => ingested[p] = {}

\* C23 (amended): the ingestion of a cycle is over before its batch reads
\* the table, and the batch selects every article of the cycle's ingestion
\* that is still pending at that moment.
C23_CycleClaimsItsPending ==
    [][\A p \in Callers :
        /\ (ingested'[p] # ingested[p] /\ ingested'[p] # {})
                => pc[p] = "ingest"
        /\ (pc[p] = "select" /\ pc'[p] \in {"claim", "returned"})
                => \A a \in ingested[p] :
                        (db[a].exists /\ db[a].status = "pending")
                            => a \in Range(articles'[p])]_vars

C23_Witness ==
    \E p \in Callers :
        /\ pc[p] = "claim"
        /\ Cardinality(ingested[p]) > 1
        /\ ingested[p] \subseteq Claimed(p)


----------------------------------------------------------------------------
(* The deduplication key (app/services/deduplication.py).  A URL is a text *)
(* of the pieces above: "w" and "s" lower case text, "W" and "S" the same  *)
(* text in upper case, "_" white space.                                    *)

MaxUrlLen == 3

UrlPieces == {"w", "W", "s", "_"}

RECURSIVE Texts(_, _)
Texts(pieces, n) ==
    IF n = 0 THEN {<<>>}
    ELSE LET shorter == Texts(pieces, n - 1) IN
         shorter \cup {Append(t, c) : t \in shorter, c \in pieces}

Urls == Texts(UrlPieces, MaxUrlLen)

\* hashlib.sha256(...).hexdigest(): one digest per byte string, two byte
\* strings never the same digest
sha256(bytes) == <<"sha256", bytes>>

\* deduplication.py:9-10
compute_url_hashCaseSensitive(url) == sha256(strip(url))
compute_url_hash(url) == sha256(lower(strip(url)))

\* tests/test_deduplication.py:12-29: the function is called on two URLs
InitHash ==
    /\ PipelineIdle
    /\ sources = <<>>
    /\ stored = <<>>
    /\ cycle = <<>>
    /\ activity = {}
    /\ \E u1 \in Urls, u2 \in Urls :
            call = [fn |-> "compute_url_hash", args |-> <<u1, u2>>, ret |-> <<>>]

call_compute_url_hash ==
    /\ call.fn = "compute_url_hash"
    /\ call.ret = <<>>
    /\ call' = [call EXCEPT !.ret = [i \in DOMAIN call.args |->
                                        compute_url_hash(call.args[i])]]
    /\ UNCHANGED <<pipeVars, sources, stored, cycle, activity>>

NextHash == call_compute_url_hash

SpecHash == InitHash /\ [][NextHash]_vars

\* C25: compute_url_hash gives two URLs the same hash exactly when the URLs
\* are equal after their surrounding white space is trimmed and they are
\* put in lower case; the same URL always gets the same hash.
C25_HashEqualIffNormalisedEqual ==
    (call.fn = "compute_url_hash" /\ call.ret # <<>>) =>
        LET u1 == call.args[1]
            u2 == call.args[2] IN
        /\ (call.ret[1] = call.ret[2]) <=> (lower(strip(u1)) = lower(strip(u2)))
        /\ u1 = u2 => call.ret[1] = call.ret[2]

C25_Witness ==
    /\ call.fn = "compute_url_hash"
    /\ call.ret # <<>>
    /\ call.args[1] = <<"_", "W", "_">>
    /\ call.args[2] = <<"w">>
    /\ call.ret[1] = call.ret[2]


----------------------------------------------------------------------------
(* Feed ingestion in detail (app/services/feed_ingestion.py:76-177).  Each *)
(* cycle has its own AsyncSession (scheduler.py:53-54); the fetch job, the *)
(* startup task and POST /trigger-fetch may run cycles at the same time.   *)
(* An action is the code between two awaits.  SQLite lets one connection   *)
(* write at a time: the first INSERT of a session takes the write lock and *)
(* the commit or rollback gives it back.                                   *)

NumSources == 2
NumCycles == 2
MaxEntries == 2

SourceIds == 1..NumSources
Cycles == 1..NumCycles

\* The links the feeds carry: the first two are the same page written in
\* two ways, the third is another page
FeedLinks == {<<"w">>, <<"W", "_">>, <<"s">>}

\* feed_ingestion.py:101-117: an entry has a link or none, and a publication
\* date or none; the date may lie before the backfill cutoff ("old")
FeedEntries ==
    {[link |-> l, published |-> "recent"] :
        l \in (FeedLinks \ {<<"s">>}) \cup {None}}
        \cup {[link |-> <<"s">>, published |-> p] : p \in {"none", "old"}}

\* models.py:34-51: a source that was never fetched, active or not
SourceRows ==
    [is_active : BOOLEAN, consecutive_failures : {0}, article_count : {0},
     last_fetched_at : {FALSE}]

\* The local variables of one call of ingest_all_feeds and the state of its
\* session; raised_at is the line the exception being handled came from and
\* committed the number of articles the call has committed so far
NoCycle ==
    [pc |-> "idle", loaded |-> <<>>, expired |-> FALSE, inactive |-> FALSE,
     todo |-> <<>>, source |-> 0, entries |-> 0, link |-> None,
     published_at |-> "none", new |-> <<>>, flushed |-> <<>>,
     exc |-> "none", raised_at |-> 0, committed |-> 0, source_added |-> 0,
     feeds_processed |-> 0, articles_added |-> 0, articles_skipped |-> 0,
     errors |-> 0]

InitIngest ==
    /\ PipelineIdle
    /\ call = NoCall
    /\ sources \in [SourceIds -> SourceRows]
    /\ stored = <<>>
    /\ cycle = [c \in Cycles |-> NoCycle]
    /\ activity = {}

\* models.py:13-14: url and url_hash are unique
unique_violationNever(rows) == FALSE
unique_violation(rows) ==
    \E i \in DOMAIN rows, j \in DOMAIN rows :
        /\ i < j
        /\ (rows[i].url = rows[j].url \/ rows[i].url_hash = rows[j].url_hash)

\* Another session has written and not committed yet: it holds the write
\* lock of the database
OtherWrites(c) == \E d \in Cycles \ {c} : cycle[d].flushed # <<>>

\* What the INSERTs of a flush raise: the write lock is taken (sqlite3
\* gives up after its busy timeout), or a unique constraint refuses a row
FlushError(c) ==
    IF cycle[c].new = <<>> THEN "none"
    ELSE IF OtherWrites(c) THEN "OperationalError"
    ELSE IF unique_violation(stored \o cycle[c].flushed \o cycle[c].new)
    THEN "IntegrityError"
    ELSE "none"

\* A failed flush or commit rolls the transaction back: the rows of the
\* session are gone and every object it holds is expired
RolledBack(cy) == [cy EXCEPT !.new = <<>>, !.flushed = <<>>, !.expired = TRUE]

\* deduplication.py:13-17, after the autoflush of the session
is_duplicate(c, url_hash) ==
    \E r \in Range(stored \o cycle[c].flushed \o cycle[c].new) :
        r.url_hash = url_hash

ActiveSources ==
    LET is_active(s) == sources[s].is_active IN
    SelectSeq([s \in SourceIds |-> s], is_active)

\* feed_ingestion.py:77-90; of the cycles that run, the first takes the
\* lowest free slot
select_sources(c) ==
    /\ cycle[c].pc = "idle"
    /\ \A d \in Cycles : d < c => cycle[d].pc # "idle"
    /\ cycle' = [cycle EXCEPT ![c] =
                    [NoCycle EXCEPT !.pc = "source", !.loaded = sources,
                                    !.todo = ActiveSources]]
    /\ UNCHANGED <<pipeVars, call, sources, stored, activity>>

\* feed_ingestion.py:92-97: the feed is parsed and has up to MaxEntries
\* entries, or the parse raises
parse(c) ==
    /\ cycle[c].pc = "source"
    /\ cycle[c].todo # <<>>
    /\ LET source == Head(cycle[c].todo) IN
        \/ /\ \E feed_entries \in 0..MaxEntries :
                cycle' = [cycle EXCEPT ![c].pc = "entries",
                                       ![c].source = source,
                                       ![c].entries = feed_entries,
                                       ![c].source_added = 0,
                                       ![c].feeds_processed = @ + 1]
            /\ activity' = activity \cup
                    {[level |-> "info", category |-> "fetch",
                      source |-> source, cycle |-> c]}
        \/ /\ cycle' = [cycle EXCEPT ![c].pc = "handler",
                                      ![c].source = source,
                                      ![c].exc = "ParseError",
                                      ![c].raised_at = 94]
            /\ UNCHANGED activity
    /\ UNCHANGED <<pipeVars, call, sources, stored>>

\* feed_ingestion.py:106-117: published_at and published_at < backfill_cutoff
before_cutoffNever(entry) == FALSE
before_cutoff(entry) == entry.published = "old"

\* feed_ingestion.py:99-122 and 145-150: the entry is skipped (no link, too
\* old, a duplicate, or the check raised) or goes on to the extractor
next_entry(c) ==
    /\ cycle[c].pc = "entries"
    /\ cycle[c].entries > 0
    /\ \E entry \in FeedEntries :
        LET rest == cycle[c].entries - 1
            skipped == [cycle[c] EXCEPT !.entries = rest,
                                        !.articles_skipped = @ + 1] IN
        IF entry.link = None \/ before_cutoff(entry)
        THEN cycle' = [cycle EXCEPT ![c] = skipped]
        ELSE IF cycle[c].inactive
        THEN cycle' = [cycle EXCEPT ![c] = skipped]
        ELSE IF FlushError(c) # "none"
        THEN cycle' = [cycle EXCEPT ![c] =
                         [RolledBack(skipped) EXCEPT !.inactive = TRUE]]
        ELSE IF is_duplicate(c, compute_url_hash(entry.link))
        THEN cycle' = [cycle EXCEPT ![c] =
                         [skipped EXCEPT !.flushed = @ \o cycle[c].new,
                                         !.new = <<>>]]
        ELSE cycle' = [cycle EXCEPT ![c].pc = "extract",
                                    ![c].entries = rest,
                                    ![c].link = entry.link,
                                    ![c].published_at = entry.published,
                                    ![c].flushed = @ \o cycle[c].new,
                                    ![c].new = <<>>]
    /\ UNCHANGED <<pipeVars, call, sources, stored, activity>>

\* feed_ingestion.py:124-150: the article is added to the session, or the
\* extractor raised and the entry is skipped
add_article(c) ==
    /\ cycle[c].pc = "extract"
    /\ \/ cycle' = [cycle EXCEPT
                ![c].pc = "entries",
                ![c].link = None,
                ![c].published_at = "none",
                ![c].new = Append(@, [url |-> cycle[c].link,
                                      url_hash |-> compute_url_hash(cycle[c].link),
                                      source_name |-> cycle[c].source,
                                      published_at |-> cycle[c].published_at,
                                      summary_status |-> "pending"]),
                ![c].source_added = @ + 1,
                ![c].articles_added = @ + 1]
       \/ cycle' = [cycle EXCEPT ![c].pc = "entries",
                                 ![c].link = None,
                                 ![c].published_at = "none",
                                 ![c].articles_skipped = @ + 1]
    /\ UNCHANGED <<pipeVars, call, sources, stored, activity>>

\* What a commit raises: the session waits for a rollback, the flush
\* failed, or the commit has rows to write and the store failed
CommitErrors(c, writes) ==
    IF cycle[c].inactive THEN {"PendingRollbackError"}
    ELSE IF FlushError(c) # "none" THEN {FlushError(c)}
    ELSE IF ~writes /\ cycle[c].flushed = <<>> THEN {"none"}
    ELSE IF OtherWrites(c) THEN {"OperationalError"}
    ELSE {"none", "OperationalError"}

\* feed_ingestion.py:152
commit_articles(c) ==
    /\ cycle[c].pc = "entries"
    /\ cycle[c].entries = 0
    /\ \E err \in CommitErrors(c, cycle[c].new # <<>>) :
        IF err = "none"
        THEN /\ stored' = stored \o cycle[c].flushed \o cycle[c].new
             /\ cycle' = [cycle EXCEPT
                            ![c].pc = "update", ![c].new = <<>>,
                            ![c].flushed = <<>>,
                            ![c].committed =
                                @ + Len(cycle[c].flushed \o cycle[c].new)]
        ELSE /\ cycle' = [cycle EXCEPT ![c] =
                            [RolledBack(cycle[c]) EXCEPT !.pc = "handler",
                                                         !.exc = err,
                                                         !.raised_at = 152]]
             /\ UNCHANGED stored
    /\ UNCHANGED <<pipeVars, call, sources, activity>>

\* The UPDATE the unit of work writes for a source: the columns whose value
\* differs from the loaded one
Updated(row, was, now) ==
    [row EXCEPT
        !.consecutive_failures =
            IF now.consecutive_failures # was.consecutive_failures
            THEN now.consecutive_failures ELSE @,
        !.article_count =
            IF now.article_count # was.article_count
            THEN now.article_count ELSE @,
        !.last_fetched_at =
            IF now.last_fetched_at # was.last_fetched_at
            THEN now.last_fetched_at ELSE @]

\* feed_ingestion.py:154-159
update_source(c) ==
    /\ cycle[c].pc = "update"
    /\ LET source == cycle[c].source
           was == cycle[c].loaded[source]
           now == [was EXCEPT !.last_fetched_at = TRUE,
                              !.article_count = @ + cycle[c].source_added,
                              !.consecutive_failures = 0] IN
        \E err \in CommitErrors(c, TRUE) :
            IF err = "none"
            THEN /\ sources' = [sources EXCEPT
                                    ![source] = Updated(@, was, now)]
                 /\ cycle' = [cycle EXCEPT ![c].pc = "source",
                                           ![c].todo = Tail(@),
                                           ![c].loaded[source] = now]
                 /\ activity' =
                        IF cycle[c].source_added > 0
                        THEN activity \cup
                                {[level |-> "success", category |-> "fetch",
                                  source |-> source, cycle |-> c]}
                        ELSE activity
            ELSE /\ cycle' = [cycle EXCEPT ![c] =
                                [RolledBack(cycle[c]) EXCEPT !.pc = "handler",
                                                             !.exc = err,
                                                             !.raised_at = 157]]
                 /\ UNCHANGED <<sources, activity>>
    /\ UNCHANGED <<pipeVars, call, stored>>

\* feed_ingestion.py:161-170.  Reading an attribute of an expired object
\* makes the session load it, which raises outside of an awaited call
\* (MissingGreenlet, or PendingRollbackError while the session waits for a
\* rollback): the handler raises at line 163, or at line 168 when its own
\* commit failed and was rolled back
source_failed(c) ==
    /\ cycle[c].pc = "handler"
    /\ LET source == cycle[c].source
           was == cycle[c].loaded[source]
           now == [was EXCEPT !.consecutive_failures = @ + 1] IN
        IF cycle[c].expired
        THEN /\ cycle' = [cycle EXCEPT ![c].pc = "raised",
                                       ![c].errors = @ + 1]
             /\ UNCHANGED <<sources, activity>>
        ELSE \E err \in CommitErrors(c, TRUE) :
            IF err = "none"
            THEN /\ sources' = [sources EXCEPT
                                    ![source] = Updated(@, was, now)]
                 /\ cycle' = [cycle EXCEPT ![c].pc = "source",
                                           ![c].todo = Tail(@),
                                           ![c].errors = @ + 1,
                                           ![c].exc = "none",
                                           ![c].raised_at = 0,
                                           ![c].loaded[source] = now]
                 /\ activity' = activity \cup
                        {[level |-> "error", category |-> "fetch",
                          source |-> source, cycle |-> c]}
            ELSE /\ cycle' = [cycle EXCEPT ![c] =
                                [RolledBack(cycle[c]) EXCEPT
                                    !.pc = "raised", !.errors = @ + 1]]
                 /\ UNCHANGED <<sources, activity>>
    /\ UNCHANGED <<pipeVars, call, stored>>

\* feed_ingestion.py:172-177
return_stats(c) ==
    /\ cycle[c].pc = "source"
    /\ cycle[c].todo = <<>>
    /\ cycle' = [cycle EXCEPT ![c].pc = "returned"]
    /\ UNCHANGED <<pipeVars, call, sources, stored, activity>>

NextIngest ==
    \E c \in Cycles :
        \/ select_sources(c)
        \/ parse(c)
        \/ next_entry(c)
        \/ add_article(c)
        \/ commit_articles(c)
        \/ update_source(c)
        \/ source_failed(c)
        \/ return_stats(c)

SpecIngest == InitIngest /\ [][NextIngest]_vars

\* C24: no two persisted articles have the same url_hash, whatever the
\* feeds carry (the same entry twice in a feed, again in a later cycle,
\* written in another case or with white space around it) and however two
\* ingestion cycles overlap.
C24_UrlHashUnique ==
    \A i \in DOMAIN stored, j \in DOMAIN stored :
        i # j => stored[i].url_hash # stored[j].url_hash

\* Two cycles took the same page each for new, one of them committed it and
\* the other one's INSERT was refused
C24_Witness ==
    \E c \in Cycles :
        /\ cycle[c].pc = "handler"
        /\ cycle[c].exc = "IntegrityError"
        /\ \E r \in Range(stored) : r.url_hash = compute_url_hash(<<"W", "_">>)


\* C30: a source-level exception is handled for its source alone: the
\* handler adds one to the source's consecutive_failures and to the errors
\* counter, records an error event, leaves the committed articles as they
\* are and goes on with the sources that remain.
C30_SourceIsolation ==
    [][\A c \in Cycles :
        (cycle[c].pc = "handler" /\ cycle'[c] # cycle[c]) =>
            LET source == cycle[c].source IN
            /\ cycle'[c].pc = "source"
            /\ cycle'[c].todo = Tail(cycle[c].todo)
            /\ cycle'[c].errors = cycle[c].errors + 1
            /\ sources'[source].consecutive_failures =
                    sources[source].consecutive_failures + 1
            /\ [level |-> "error", category |-> "fetch", source |-> source,
                cycle |-> c] \in activity'
            /\ stored' = stored]_vars


----------------------------------------------------------------------------
(* The categoriser (app/services/categoriser.py).  A text is a sequence of *)
(* tokens; a token is a stretch of characters that is a keyword, a part of *)
(* the keyword "zero day", or text in which no keyword occurs.  A keyword  *)
(* is the sequence of the tokens it is made of: only "zero day" has more   *)
(* than one, so that a match across the joint of title and content shows.  *)

MaxTitleLen == 2
MaxContentLen == 3

\* categoriser.py:1-59
CATEGORIES == <<
    [slug |-> "ai_security", keywords |-> {
        <<"shadow ai">>, <<"llm attack">>, <<"ai security">>,
        <<"model poisoning">>, <<"prompt injection">>, <<"ai agent">>,
        <<"saas ai">>, <<"copilot security">>, <<"generative ai">>,
        <<"deepfake">>, <<"ai-generated malware">>}],
    [slug |-> "vulnerabilities", keywords |-> {
        <<"cve-">>, <<"nvd">>, <<"patch tuesday">>, <<"zero-day">>,
        <<"zero", " ", "day">>, <<"exploit">>, <<"vulnerability">>,
        <<"advisory">>, <<"cvss">>, <<"rce">>, <<"remote code">>}],
    [slug |-> "malware", keywords |-> {
        <<"ransomware">>, <<"trojan">>, <<"botnet">>, <<"spyware">>,
        <<"wiper">>, <<"rat ">>, <<"dropper">>, <<"malware">>,
        <<"backdoor">>, <<"stealer">>, <<"rootkit">>}],
    [slug |-> "threat_intel", keywords |-> {
        <<"apt">>, <<"threat actor">>, <<"campaign">>, <<"nation-state">>,
        <<"ioc">>, <<"ttps">>, <<"mitre att&ck">>,
        <<"threat intelligence">>, <<"threat group">>}],
    [slug |-> "appsec", keywords |-> {
        <<"xss">>, <<"sql injection">>, <<"owasp">>, <<"api security">>,
        <<"web app">>, <<"sast">>, <<"dast">>, <<"burp">>,
        <<"penetration test">>, <<"csrf">>, <<"ssrf">>}],
    [slug |-> "cloud_security", keywords |-> {
        <<"aws">>, <<"azure">>, <<"gcp">>, <<"cloud">>, <<"s3 bucket">>,
        <<"iam">>, <<"kubernetes">>, <<"container">>, <<"docker">>,
        <<"terraform">>, <<"misconfiguration">>}],
    [slug |-> "compliance", keywords |-> {
        <<"gdpr">>, <<"hipaa">>, <<"pci dss">>, <<"iso 27001">>, <<"nist">>,
        <<"regulation">>, <<"audit">>, <<"compliance">>, <<"sox">>,
        <<"dora">>}],
    [slug |-> "privacy", keywords |-> {
        <<"data breach">>, <<"privacy">>, <<"tracking">>, <<"surveillance">>,
        <<"personal data">>, <<"leak">>, <<"deanonymization">>,
        <<"biometric">>}] >>

\* str.lower() of a token: the tokens written with capitals, every other
\* token is in lower case already
lowerToken(t) ==
    CASE t = "XSS" -> "xss"
      [] t = "SQL injection" -> "sql injection"
      [] t = "SSRF" -> "ssrf"
      [] t = "RANSOMWARE" -> "ransomware"
      [] t = "EXPLOIT" -> "exploit"
      [] t = " patched in major CMS" -> " patched in major cms"
      [] OTHER -> t

lowerText(text) == [i \in DOMAIN text |-> lowerToken(text[i])]

\* The number of characters of a token of the contents below: "lorem" is
\* 490 characters of text without a keyword, "body" 2990 and "para" 60
\* characters of text, "line" 45, "<img>" one tag of 60 characters, "_" a
\* white space
Chars(t) ==
    CASE t = "lorem" -> 490
      [] t = "ransomware" -> 10
      [] t = "EXPLOIT" -> 7
      [] t = "news" -> 4
      [] t = "day" -> 3
      [] t = "-" -> 1
      [] t = "body" -> 2990
      [] t = "para" -> 60
      [] t = "line" -> 45
      [] t = "<img>" -> 60
      [] t = "Title" -> 5
      [] t = "Feed" -> 4
      [] t = "." -> 1
      [] t = "_" -> 1

RECURSIVE chars(_)
chars(text) == IF text = <<>> THEN 0 ELSE Chars(Head(text)) + chars(Tail(text))

\* categoriser.py:64
ContentPrefix == 500

\* content[:n]: the tokens that end within the first n characters; of a
\* token that goes beyond them a part without a keyword is left ("#")
RECURSIVE slice(_, _)
slice(text, n) ==
    IF text = <<>> \/ n <= 0 THEN <<>>
    ELSE IF Chars(Head(text)) <= n
    THEN <<Head(text)>> \o slice(Tail(text), n - Chars(Head(text)))
    ELSE <<"#">>

\* keyword in text
occurs(keyword, text) ==
    \E i \in 1..(Len(text) - Len(keyword) + 1) :
        SubSeq(text, i, i + Len(keyword) - 1) = keyword

\* categoriser.py:65-69 from rule i on
RECURSIVE first_match(_, _)
first_match(text, i) ==
    IF i > Len(CATEGORIES) THEN "general"
    ELSE IF \E keyword \in CATEGORIES[i].keywords : occurs(keyword, text)
    THEN CATEGORIES[i].slug
    ELSE first_match(text, i + 1)

\* categoriser.py:65-69 read from the last rule to the first
RECURSIVE last_match(_, _)
last_match(text, i) ==
    IF i < 1 THEN "general"
    ELSE IF \E keyword \in CATEGORIES[i].keywords : occurs(keyword, text)
    THEN CATEGORIES[i].slug
    ELSE last_match(text, i - 1)

\* categoriser.py:62-69
categoriseLastRule(title, content) ==
    last_match(lowerText(title \o <<" ">> \o slice(content, ContentPrefix)),
               Len(CATEGORIES))
categorise(title, content) ==
    first_match(lowerText(title \o <<" ">> \o slice(content, ContentPrefix)), 1)

\* The titles and contents categorise is called with
TitleTokens ==
    {"prompt injection", "exploit", "RANSOMWARE", "apt", "xss", "aws",
     "gdpr", "privacy", "zero", "news"}

ContentTokens == {"lorem", "news", "-", "ransomware", "day", "EXPLOIT"}

Titles == Texts(TitleTokens, MaxTitleLen)
Contents == Texts(ContentTokens, MaxContentLen)

\* tests/test_categoriser.py:37-44
XssTitle == <<"XSS", " ", "vulnerability", " patched in major CMS">>
SqlTitle == <<"SQL injection", " flaw exposes user database">>
SsrfTitle == <<"SSRF", " bug allows internal network access">>

InitCategorise ==
    /\ PipelineIdle
    /\ sources = <<>>
    /\ stored = <<>>
    /\ cycle = <<>>
    /\ activity = {}
    /\ \E args \in (Titles \X Contents)
                    \cup ({XssTitle, SqlTitle, SsrfTitle} \X {<<>>}) :
            call = [fn |-> "categorise", args |-> args, ret |-> <<>>]

call_categorise ==
    /\ call.fn = "categorise"
    /\ call.ret = <<>>
    /\ call' = [call EXCEPT !.ret = <<categorise(call.args[1], call.args[2])>>]
    /\ UNCHANGED <<pipeVars, sources, stored, cycle, activity>>

NextCategorise == call_categorise

SpecCategorise == InitCategorise /\ [][NextCategorise]_vars

\* The text categorise searches: the title, a space, the first 500
\* characters of the content, in lower case
SearchedText(title, content) ==
    lowerText(title \o <<" ">> \o slice(content, ContentPrefix))

\* The rules that have a keyword in the text
Matching(text) ==
    {i \in DOMAIN CATEGORIES :
        \E keyword \in CATEGORIES[i].keywords : occurs(keyword, text)}

C27_AppsecTitles ==
    (/\ call.fn = "categorise"
     /\ call.ret # <<>>
     /\ call.args \in {XssTitle, SqlTitle, SsrfTitle} \X {<<>>})
        => call.ret[1] = "appsec"


----------------------------------------------------------------------------
(* The content extractor (app/services/feed_ingestion.py:21-73).  What the *)
(* page fetch gives is an input of the call, like the entry of the feed.   *)
(* A value of the entry has a shape: none (the field is absent), str, dict,*)
(* list (empty), list_of_dict (its first element is a dict with the text   *)
(* under "value") or list_of_str (its first element is the text itself).   *)

\* feed_ingestion.py:46
MinPageChars == 100
\* feed_ingestion.py:59 and 62
MinFieldChars == 50
\* feed_ingestion.py:47 and 63
MaxContentChars == 3000

Absent == [shape |-> "none", value |-> <<>>]
Value(shape, text) == [shape |-> shape, value |-> text]

\* The exception left the function
RaisedError(name) == [raised |-> name, content |-> <<>>, image_url |-> "None"]

\* re.sub(r"<[^>]+>", " ", val)
untag(text) == [i \in DOMAIN text |-> IF text[i] = "<img>" THEN "_" ELSE text[i]]

\* re.sub(r"\s+", " ", clean)
RECURSIVE collapse(_)
collapse(text) ==
    IF Len(text) < 2 THEN text
    ELSE IF text[1] = "_" /\ text[2] = "_" THEN collapse(Tail(text))
    ELSE <<Head(text)>> \o collapse(Tail(text))

\* tier 1 that takes page text of any length
tier1AnyLength(page) ==
    IF page.outcome \in {"timeout", "error", "no_html", "no_result"}
    THEN [content |-> <<>>, image_url |-> "None"]
    ELSE LET extracted_text == page.text IN
         [content |-> slice(strip(extracted_text), MaxContentChars),
          image_url |-> page.image]
\* feed_ingestion.py:29-51: what tier 1 leaves in content and image_url;
\* whatever raises in it is caught
tier1(page) ==
    IF page.outcome \in {"timeout", "error", "no_html", "no_result"}
    THEN [content |-> <<>>, image_url |-> "None"]
    ELSE LET extracted_text == page.text IN
         [content |-> IF chars(strip(extracted_text)) > MinPageChars
                      THEN slice(strip(extracted_text), MaxContentChars)
                      ELSE <<>>,
          image_url |-> page.image]

TierTwoFields == <<"content", "summary_detail", "summary", "description">>

\* feed_ingestion.py:55-64 from field i on: the content found, <<>> when no
\* field has enough text, or the exception that val[0].get raises on an
\* element that is not a dict
RECURSIVE tier2(_, _)
tier2(entry, i) ==
    IF i > Len(TierTwoFields) THEN [raised |-> "none", content |-> <<>>]
    ELSE LET field == entry[TierTwoFields[i]] IN
         IF field.shape = "list_of_str"
         THEN [raised |-> "AttributeError", content |-> <<>>]
         ELSE LET val == IF field.shape \in {"list_of_dict", "str"}
                         THEN field.value ELSE <<>>
                  clean == collapse(strip(untag(val))) IN
              IF /\ field.shape \in {"list_of_dict", "str"}
                 /\ val # <<>>
                 /\ chars(strip(val)) > MinFieldChars
                 /\ chars(clean) > MinFieldChars
              THEN [raised |-> "none", content |-> slice(clean, MaxContentChars)]
              ELSE tier2(entry, i + 1)

\* feed_ingestion.py:67-71
tier3NoDot(entry) ==
    LET title == IF entry.title.shape = "none" THEN <<>> ELSE entry.title.value
        source_title == IF entry.source.shape = "dict"
                        THEN entry.source.value ELSE <<>> IN
    strip(title \o <<"_">> \o source_title)
tier3(entry) ==
    LET title == IF entry.title.shape = "none" THEN <<>> ELSE entry.title.value
        source_title == IF entry.source.shape = "dict"
                        THEN entry.source.value ELSE <<>> IN
    strip(title \o <<".", "_">> \o source_title)

\* feed_ingestion.py:21-73
extract_content_and_image(page, entry) ==
    LET first == tier1(page) IN
    IF first.content # <<>>
    THEN [raised |-> "none", content |-> first.content,
          image_url |-> first.image_url]
    ELSE LET second == tier2(entry, 1) IN
         IF second.raised # "none" THEN RaisedError(second.raised)
         ELSE IF second.content # <<>>
         THEN [raised |-> "none", content |-> second.content,
               image_url |-> first.image_url]
         ELSE [raised |-> "none", content |-> tier3(entry),
               image_url |-> first.image_url]

\* What the fetch and the extraction of the page may give
Pages ==
    {[outcome |-> o, text |-> <<>>, image |-> "None"] :
        o \in {"timeout", "error", "no_html", "no_result"}}
    \cup {[outcome |-> "result", text |-> t, image |-> i] :
            t \in {<<>>, <<"_", "para", "_">>, <<"para", "para">>,
                   <<"body", "para">>},
            i \in {"None", "https://img"}}

FieldTexts == {<<>>, <<"line">>, <<"para">>, <<"<img>">>, <<"_", "para", "<img>", "_", "line">>}

Entries ==
    [content : {Absent, Value("list", <<>>)}
                    \cup {Value("list_of_dict", t) : t \in FieldTexts \ {<<"<img>">>}}
                    \cup {Value("list_of_str", <<"para">>)},
     summary_detail : {Absent, Value("dict", <<>>)},
     summary : {Absent} \cup {Value("str", t) : t \in FieldTexts},
     description : {Absent, Value("str", <<"para">>),
                    Value("str", <<"body", "para">>)},
     title : {Absent, Value("str", <<>>), Value("str", <<"Title">>)},
     source : {Absent, Value("dict", <<>>), Value("dict", <<"Feed">>),
               Value("str", <<"Feed">>)}]

InitExtract ==
    /\ PipelineIdle
    /\ sources = <<>>
    /\ stored = <<>>
    /\ cycle = <<>>
    /\ activity = {}
    /\ \E page \in Pages, entry \in Entries :
            call = [fn |-> "extract_content_and_image",
                    args |-> <<page, entry>>, ret |-> <<>>]

call_extract_content_and_image ==
    /\ call.fn = "extract_content_and_image"
    /\ call.ret = <<>>
    /\ call' = [call EXCEPT !.ret =
                    <<extract_content_and_image(call.args[1], call.args[2])>>]
    /\ UNCHANGED <<pipeVars, sources, stored, cycle, activity>>

NextExtract == call_extract_content_and_image

SpecExtract == InitExtract /\ [][NextExtract]_vars

\* C28: the content extract_content_and_image returns is never empty, also
\* when the page fetch fails or times out and the entry has no content,
\* summary, description, title or source.
C28_ContentNeverEmpty ==
    (/\ call.fn = "extract_content_and_image"
     /\ call.ret # <<>>
     /\ call.ret[1].raised = "none")
        => call.ret[1].content # <<>>

\* The fetch timed out, the entry has none of the fields, and the call
\* returned the "." of the title fallback
C28_Witness ==
    /\ call.fn = "extract_content_and_image"
    /\ call.ret # <<>>
    /\ call.args[1].outcome = "timeout"
    /\ \A f \in DOMAIN call.args[2] : call.args[2][f] = Absent
    /\ call.ret[1] = [raised |-> "none", content |-> <<".">>, image_url |-> "None"]

C31_SuccessBookkeeping ==
    [][\A c \in Cycles :
        (cycle[c].pc = "update" /\ cycle'[c].pc = "source") =>
            LET source == cycle[c].source IN
            /\ sources'[source].consecutive_failures = 0
            /\ sources'[source].last_fetched_at
            /\ sources'[source].article_count =
                    sources[source].article_count + cycle[c].source_added]_vars

\* The articles ingestion has created: committed, or still in a session
Created == Range(stored) \cup UNION {Range(cycle[c].flushed \o cycle[c].new) : c \in Cycles}

ArticlesWellFormed ==
    \A r \in Created :
        /\ r.summary_status = "pending"
        /\ r.url_hash = compute_url_hash(r.url)
        /\ r.published_at \in {"none", "recent"}

\* C34: every article ingestion creates is pending, has the hash of its url
\* and a publication date that is absent or not before the backfill cutoff;
\* an entry goes on to become an article only with a link, not before the
\* cutoff and not a duplicate, and an entry that is dropped creates no
\* article and adds one to articles_skipped.
C34_CreatedArticles ==
    /\ []ArticlesWellFormed
    /\ [][\A c \in Cycles :
            /\ (cycle[c].pc = "entries" /\ cycle'[c].pc = "extract") =>
                    /\ cycle'[c].link # None
                    /\ cycle'[c].published_at # "old"
                    /\ ~is_duplicate(c, compute_url_hash(cycle'[c].link))
            /\ (/\ cycle[c].pc \in {"entries", "extract"}
                /\ cycle'[c].pc = "entries"
                /\ cycle'[c].articles_added = cycle[c].articles_added
                /\ cycle'[c] # cycle[c]) =>
                    /\ cycle'[c].articles_skipped = cycle[c].articles_skipped + 1
                    /\ Len(cycle'[c].flushed \o cycle'[c].new)
                            <= Len(cycle[c].flushed \o cycle[c].new)
                    /\ stored' = stored
            /\ (cycle'[c].articles_added # cycle[c].articles_added
                    /\ cycle'[c].pc # "source") =>
                    /\ cycle[c].pc = "extract"
                    /\ cycle'[c].articles_added = cycle[c].articles_added + 1
                    /\ cycle'[c].articles_skipped = cycle[c].articles_skipped
                    /\ cycle'[c].new =
                        Append(cycle[c].new,
                               [url |-> cycle[c].link,
                                url_hash |-> compute_url_hash(cycle[c].link),
                                source_name |-> cycle[c].source,
                                published_at |-> cycle[c].published_at,
                                summary_status |-> "pending"])]_vars

\* A cycle has committed an article without a date and has skipped entries
C34_Witness ==
    \E c \in Cycles :
        /\ cycle[c].committed > 0
        /\ cycle[c].articles_skipped > 1
        /\ \E r \in Range(stored) : r.published_at = "none"

\* C35: the new articles of a source are committed as one unit: when that
\* commit fails none of them is persisted and the committed articles stay as
\* they are, and the source is then counted as an error, with one more in
\* errors and in its consecutive_failures.
C35_CommitIsOneUnit ==
    [][\A c \in Cycles :
        /\ (cycle[c].pc = "entries" /\ cycle'[c].pc = "handler") =>
                /\ stored' = stored
                /\ cycle'[c].new = <<>>
                /\ cycle'[c].flushed = <<>>
        /\ (/\ cycle[c].pc = "handler"
            /\ cycle[c].raised_at = 152
            /\ cycle'[c] # cycle[c]) =>
                LET source == cycle[c].source IN
                /\ stored' = stored
                /\ cycle'[c].errors = cycle[c].errors + 1
                /\ sources'[source].consecutive_failures =
                        sources[source].consecutive_failures + 1]_vars

\* C37: when ingest_all_feeds is done with a source, and when it has ended,
\* its articles_added counter is the number of articles the call has
\* committed, also after a commit that failed.
C37_AddedIsPersisted ==
    \A c \in Cycles :
        cycle[c].pc \in {"source", "returned", "raised"} =>
            cycle[c].articles_added = cycle[c].committed


\* The string tier 2 reads in a field of the entry
FieldText(entry, f) ==
    IF entry[f].shape \in {"str", "list_of_dict"} THEN entry[f].value ELSE <<>>

\* The field's text without tags and runs of whitespace
Cleaned(entry, f) == collapse(strip(untag(FieldText(entry, f))))

\* The field has more than 50 characters, before and after the cleaning
Usable(entry, f) ==
    /\ chars(strip(FieldText(entry, f))) > MinFieldChars
    /\ chars(Cleaned(entry, f)) > MinFieldChars

\* The text has at most n characters; the last token may be a cut one
AtMost(text, n) ==
    /\ \A i \in DOMAIN text : text[i] = "#" => i = Len(text)
    /\ chars(SelectSeq(text, LAMBDA t : t # "#"))
            + (IF text # <<>> /\ text[Len(text)] = "#" THEN 1 ELSE 0) <= n

\* C33: the tiers are tried in order and the first success wins: the page
\* text is the content only if it has more than 100 characters; the cleaned
\* text of the first feed field that has more than 50 characters is the
\* content only if the page gave none; the title and source name are the
\* content only if both gave none; content of tier 1 or 2 has at most 3000
\* characters; and the image URL is that of the page, whichever tier gave
\* the content.
C33_TiersInOrder ==
    (/\ call.fn = "extract_content_and_image"
     /\ call.ret # <<>>
     /\ call.ret[1].raised = "none")
        => LET page == call.args[1]
               entry == call.args[2]
               got == call.ret[1]
               page_text == IF page.outcome = "result"
                            THEN strip(page.text) ELSE <<>>
               usable == {i \in DOMAIN TierTwoFields :
                            Usable(entry, TierTwoFields[i])}
               first == CHOOSE i \in usable : \A j \in usable : i <= j
           IN  /\ got.image_url = (IF page.outcome = "result"
                                   THEN page.image ELSE "None")
               /\ IF chars(page_text) > MinPageChars
                  THEN /\ got.content = slice(page_text, MaxContentChars)
                       /\ AtMost(got.content, MaxContentChars)
                  ELSE IF usable # {}
                  THEN /\ got.content = slice(Cleaned(entry, TierTwoFields[first]),
                                              MaxContentChars)
                       /\ AtMost(got.content, MaxContentChars)
                  ELSE got.content = tier3(entry)

\* The page had too little text and an image, the entry's content field had
\* enough: the call returned the cleaned field and the page's image
C33_Witness ==
    /\ call.fn = "extract_content_and_image"
    /\ call.ret # <<>>
    /\ call.args[1] = [outcome |-> "result", text |-> <<"_", "para", "_">>,
                       image |-> "https://img"]
    /\ call.args[2].content =
            Value("list_of_dict", <<"_", "para", "<img>", "_", "line">>)
    /\ call.ret[1] = [raised |-> "none", content |-> <<"para", "_", "line">>,
                      image_url |-> "https://img"]

\* The description had more than 3000 characters and was cut
C33_WitnessCut ==
    /\ call.fn = "extract_content_and_image"
    /\ call.ret # <<>>
    /\ call.args[1].outcome = "timeout"
    /\ call.ret[1].content = <<"body", "#">>


\* ---------------------------------------------------------------------
\* The activity log (activity_log.py, admin_actions.py get_activity)
\* ---------------------------------------------------------------------

\* activity_log.py:18, deque(maxlen=200)
MaxLogEntries == 200
\* admin_actions.py:64
ViewLimit == 60
\* Calls of log_activity in one behaviour
MaxRecords == 203

Levels == {"info", "success", "error", "warn"}
LogCategories == {"fetch", "summarise", "retry", "system"}

\* deque.appendleft without maxlen: nothing is dropped
appendleftUnbounded(deque, x) == <<x>> \o deque
\* deque.appendleft of a deque with maxlen: when the deque is full the
\* element at the other end is discarded
appendleft(deque, x) ==
    IF Len(deque) < MaxLogEntries THEN <<x>> \o deque
    ELSE <<x>> \o SubSeq(deque, 1, MaxLogEntries - 1)

\* The log is empty when the module is loaded; the callers of one behaviour
\* record with one level and category, and the message (and time) of the
\* n-th call is n
InitLog ==
    /\ PipelineIdle
    /\ sources = <<>>
    /\ stored = <<>>
    /\ cycle = <<>>
    /\ activity = <<>>
    /\ \E level \in Levels, kind \in LogCategories :
            call = [fn |-> "log_activity", args |-> <<level, kind, 1>>,
                    ret |-> <<>>]

\* activity_log.py:21-29
log_activity ==
    /\ call.fn = "log_activity"
    /\ call.args[3] <= MaxRecords
    /\ activity' = appendleft(activity,
                        [time |-> call.args[3], level |-> call.args[1],
                         category |-> call.args[2], message |-> call.args[3]])
    /\ call' = [call EXCEPT !.args[3] = @ + 1, !.ret = <<>>]
    /\ UNCHANGED <<pipeVars, sources, stored, cycle>>

\* admin_actions.py:60-64: list(ACTIVITY_LOG)[:60]
get_activity ==
    /\ call.fn = "log_activity"
    /\ call.ret = <<>>
    /\ call' = [call EXCEPT !.ret =
                    <<SubSeq(activity, 1, IF Len(activity) < ViewLimit
                                          THEN Len(activity) ELSE ViewLimit)>>]
    /\ UNCHANGED <<pipeVars, sources, stored, cycle, activity>>

NextLog == log_activity \/ get_activity

SpecLog == InitLog /\ [][NextLog]_vars

\* The number of log_activity calls made so far
Recorded == call.args[3] - 1

\* The log holds the min(n, 200) entries recorded last, newest first
NewestFirst ==
    call.fn = "log_activity" =>
        /\ Len(activity) = (IF Recorded < MaxLogEntries
                            THEN Recorded ELSE MaxLogEntries)
        /\ \A i \in DOMAIN activity : activity[i].message = Recorded - i + 1

\* C32: after any sequence of log_activity calls the activity log holds
\* exactly the min(n, 200) entries recorded last, newest first: it never has
\* more than 200 entries, each call puts the new entry first and leaves the
\* others in their order, and a call on a full log drops exactly the oldest.
C32_RingBuffer ==
    /\ [](NewestFirst /\ Len(activity) <= MaxLogEntries)
    /\ [][(call.fn = "log_activity" /\ activity' # activity) =>
            /\ Head(activity').message = Recorded + 1
            /\ Tail(activity') =
                    (IF Len(activity) < MaxLogEntries THEN activity
                     ELSE SubSeq(activity, 1, Len(activity) - 1))]_vars

\* Three entries were recorded on a full log: the log holds the entries 4
\* to 203, the newest first
C32_Witness ==
    /\ call.fn = "log_activity"
    /\ Recorded = MaxRecords
    /\ Len(activity) = MaxLogEntries
    /\ activity[1].message = MaxRecords
    /\ activity[MaxLogEntries].message = MaxRecords - MaxLogEntries + 1


\* ---------------------------------------------------------------------
\* The two resets as functions of the articles table (scheduler.py 65-71
\* and 131-139)
\* ---------------------------------------------------------------------

\* Resets applied one after the other in one behaviour
MaxResets == 2

ArticleRows ==
    {NoRow} \cup [exists : {TRUE},
                  status : {"pending", "processing", "done", "failed"},
                  summary : {None, <<"S">>},
                  isActive : BOOLEAN]

\* Any articles table and any cutoff of the watchdog
InitResets ==
    /\ PipelineIdle
    /\ sources = <<>>
    /\ stored = <<>>
    /\ cycle = <<>>
    /\ activity = {}
    /\ \E d \in [Ids -> ArticleRows], cutoff \in 0..Cardinality(Ids) :
            call = [fn |-> "resets", args |-> <<d, cutoff>>, ret |-> <<>>]

\* The table the next statement finds
Table ==
    IF call.ret = <<>> THEN call.args[1] ELSE call.ret[Len(call.ret)].after

\* scheduler.py:131-138, the watchdog's UPDATE and commit
call_watchdog_reset ==
    /\ call.fn = "resets"
    /\ Len(call.ret) < MaxResets
    /\ call' = [call EXCEPT !.ret =
                    Append(@, [job |-> "watchdog", before |-> Table,
                               after |-> watchdog_reset(Table, call.args[2])])]
    /\ UNCHANGED <<pipeVars, sources, stored, cycle, activity>>

\* scheduler.py:65-71, the retry job's UPDATE and commit
call_retry_reset ==
    /\ call.fn = "resets"
    /\ Len(call.ret) < MaxResets
    /\ call' = [call EXCEPT !.ret =
                    Append(@, [job |-> "retry", before |-> Table,
                               after |-> retry_reset(Table)])]
    /\ UNCHANGED <<pipeVars, sources, stored, cycle, activity>>

NextResets == call_watchdog_reset \/ call_retry_reset

SpecResets == InitResets /\ [][NextResets]_vars

\* The articles a statement changed
Touched(r) == {a \in Ids : r.after[a] # r.before[a]}

\* C39: the watchdog reset changes only articles in processing and the retry
\* reset only articles in failed, and each changes nothing but the status,
\* to pending; the two touch disjoint sets of articles; a reset applied
\* twice changes nothing the second time; and the two applied in either
\* order to any table give the same table.
C39_ResetsCommute ==
    call.fn = "resets" =>
        LET d == call.args[1]
            cutoff == call.args[2]
            ret == call.ret
        IN  /\ \A i \in DOMAIN ret : \A a \in Touched(ret[i]) :
                    /\ ret[i].before[a].status =
                            (IF ret[i].job = "watchdog"
                             THEN "processing" ELSE "failed")
                    /\ ret[i].after[a] =
                            [ret[i].before[a] EXCEPT !.status = "pending"]
            /\ Len(ret) = 2 /\ ret[1].job = ret[2].job =>
                    ret[2].after = ret[1].after
            /\ Len(ret) = 2 /\ ret[1].job # ret[2].job =>
                    /\ Touched(ret[1]) \cap Touched(ret[2]) = {}
                    /\ Touched([before |-> d, after |-> watchdog_reset(d, cutoff)])
                         \cap Touched([before |-> d, after |-> retry_reset(d)]) = {}
                    /\ ret[2].after =
                            (IF ret[1].job = "watchdog"
                             THEN watchdog_reset(retry_reset(d), cutoff)
                             ELSE retry_reset(watchdog_reset(d, cutoff)))

\* The watchdog reset a stuck article and then the retry a failed one, and
\* the article claimed after the cutoff is still in processing
C39_Witness ==
    /\ call.fn = "resets"
    /\ Len(call.ret) = 2
    /\ call.ret[1].job = "watchdog"
    /\ call.ret[2].job = "retry"
    /\ Touched(call.ret[1]) = {1}
    /\ Touched(call.ret[2]) = {2}
    /\ call.args[1][3].status = "processing"
    /\ call.ret[2].after[3].status = "processing"


\* C36: when process_pending_articles returns without having been skipped,
\* processed is the number of articles it claimed, done + failed is
\* processed, and done and failed are the numbers of claimed articles whose
\* status the batch persisted as done and as failed, also when the commit of
\* an article failed.
C36_CountsArePersisted ==
    [][\A p \in Callers :
        (/\ result'[p] # result[p]
         /\ result'[p].kind = "returned"
         /\ ~result'[p].skipped)
            => /\ result'[p].processed = Cardinality(Claimed(p))
               /\ result'[p].done + result'[p].failed = result'[p].processed
               /\ result'[p].done =
                    Cardinality({a \in Claimed(p) : persisted[p][a] = "done"})
               /\ result'[p].failed =
                    Cardinality({a \in Claimed(p) : persisted[p][a] = "failed"})]_vars


\* A step of the batch of caller p: process_pending_articles and its tasks
BatchStep(p) ==
    \/ Enter(p) \/ Select(p) \/ Claim(p) \/ ClaimFail(p)
    \/ \E a \in Ids : TaskStart(p, a) \/ InferenceReturn(p, a)
    \/ \E a \in Ids : SleepDone(p, a) \/ CommitDone(p, a) \/ CommitFail(p, a)
    \/ Return(p) \/ Abort(p) \/ AbortLast(p) \/ Reap(p)

\* C38: a step of a summarisation batch creates no article and deletes none,
\* and it changes nothing but status, summary and is_active of the articles
\* the batch claimed: every article that was not pending when the batch
\* selected its articles, whether ingested or reset to pending since, is
\* left as it is.
C38_BatchFrame ==
    [][\A p \in Callers :
        BatchStep(p) =>
            /\ nextId' = nextId
            /\ category' = category
            /\ \A a \in Ids :
                /\ db'[a].exists = db[a].exists
                /\ db'[a] # db[a] => a \in Claimed(p)]_vars

\* A batch has persisted the outcome of an article it claimed while an
\* article ingested after its claim waits as pending
C38_Witness ==
    \E p \in Callers :
        /\ pc[p] = "gather"
        /\ \E a \in Claimed(p) : persisted[p][a] = "done" /\ db[a].status = "done"
        /\ \E b \in Ids \ Claimed(p) : db[b].exists /\ db[b].status = "pending"


\* ---------------------------------------------------------------------
\* Batches that end in every way, with fairness: two pending articles, the
\* fetch job firing for ever, and claims and commits that may raise
\* ---------------------------------------------------------------------

NextGuard ==
    \/ \E p \in Callers : ingest_and_summarise(p)
    \/ \E p \in Callers : ingest_all_feeds(p)
    \/ \E p \in Callers : Enter(p)
    \/ \E p \in Callers : Select(p)
    \/ \E p \in Callers : Claim(p)
    \/ \E p \in Callers : ClaimFail(p)
    \/ \E p \in Callers, a \in Ids : TaskStart(p, a)
    \/ \E p \in Callers, a \in Ids : InferenceReturn(p, a)
    \/ \E p \in Callers, a \in Ids : SleepDone(p, a)
    \/ \E p \in Callers, a \in Ids : CommitDone(p, a)
    \/ \E p \in Callers, a \in Ids : CommitFail(p, a)
    \/ \E p \in Callers : Return(p)
    \/ \E p \in Callers : Abort(p)
    \/ \E p \in Callers : AbortLast(p)
    \/ \E p \in Callers : Reap(p)
    \/ \E p \in Callers : Leave(p)

\* The event loop runs every coroutine that can run, every inference call
\* returns or times out (summariser.py:65, 84, 97), and every commit ends,
\* with or without an error
FairGuard ==
    \A p \in Callers :
        WF_vars(Runs(p) \/ ClaimFail(p) \/ \E a \in Ids : CommitFail(p, a))

SpecGuard == InitLive("ollama", 0) /\ [][NextGuard]_vars /\ FairGuard

\* C40: every batch terminates, and the single-flight guard is held only
\* while a batch runs: it is free after a batch that found no pending
\* article, after one in which every article failed and after one whose
\* claim or commit raised, so a trigger is skipped only while another batch
\* is running.
C40_GuardReleased ==
    /\ [](locked => \E p \in Callers : InBatch(p))
    /\ [][\A p \in Callers :
            (result'[p] = SkippedResult /\ result[p] # SkippedResult)
                => \E q \in Callers \ {p} : InBatch(q)]_vars
    /\ \A p \in Callers : InBatch(p) ~> ~InBatch(p)

\* A batch ended with an exception and the guard is free
C40_Witness ==
    \E p \in Callers :
        /\ pc[p] = "returned"
        /\ result[p] = Raised
        /\ ~locked

\* A batch in which every article failed has returned and the guard is free
C40_WitnessAllFailed ==
    \E p \in Callers :
        /\ pc[p] = "returned"
        /\ result[p] = BatchResult(LiveArticles, 0, LiveArticles)
        /\ ~locked

\* A batch found no pending article and the guard is free
C40_WitnessEmpty ==
    \E p \in Callers :
        /\ pc[p] = "returned"
        /\ result[p] = EmptyResult
        /\ ~locked

============================================================================
